---- MODULE Spec2Model ----
(***************************************************************************)
(* State-machine model of the star-sniffer endless runner.                 *)
(*                                                                         *)
(* Part I models the mode-catalog variant, src/src/components/             *)
(* PikachuGame.tsx: React state and refs are the variables, every event    *)
(* handler, effect and animation-frame callback is an action.  A render    *)
(* and the effects it triggers are taken as part of the handler that       *)
(* caused them.                                                            *)
(*                                                                         *)
(* Numbers.  The source computes in IEEE doubles; the model computes in    *)
(* integers:                                                               *)
(*   time            ms                                                    *)
(*   x, width        1/XS px                                               *)
(*   y, height       1/YS px, YS = 1667^2, so that the vertical Euler step *)
(*                   with delta/16.67 is exact for whole-ms deltas         *)
(*   velocityY       1/VS px per frame, VS = 100 * 1667                    *)
(*   rampMultiplier  1/RS                                                  *)
(*   scoreRef        1/SS points                                           *)
(* The scroll distance and the score increment are rounded down to their   *)
(* unit; everything else is exact.                                         *)
(***************************************************************************)
EXTENDS Integers, Sequences, FiniteSets, TLC

Min(a, b) == IF a < b THEN a ELSE b
Max(a, b) == IF a > b THEN a ELSE b
Abs(a) == IF a < 0 THEN -a ELSE a

FRAME == 1667
XS == 10 ^ 3
YS == FRAME * FRAME
VS == 100 * FRAME
RS == 10 ^ 7
SS == 10 ^ 5

(***************************************************************************)
(* Bounds of the model.                                                    *)
(***************************************************************************)
\* Ticks are taken while elapsedRef < MaxElapsed (ms of play time per run).
MaxElapsed == 3000
\* startGame is invoked at most MaxRuns times.
MaxRuns == 2
\* Jump commands reach a running game only in its first JumpWindow ms.
JumpWindow == 40
\* Random draws, as Math.random() in 1/1000.
Rand == {0, 500}
\* At most MaxQueued animation-frame callbacks wait at a time.
MaxQueued == 1
\* Gaps between the loop's time stamps (ms): the first frame of a run may
\* come early, later frames come late enough to be clamped.
FirstGaps == {0, 40}
SteadyGaps == {40}
\* window.innerWidth values delivered by resize events.
InnerWidths == {340, 348, 528}
\* window.innerWidth when the component mounts: the narrowest window.
InitialInnerWidth == CHOOSE w \in InnerWidths : \A v \in InnerWidths : w <= v

\* Draws taken for the spawn delay (the shortest delay of the range), the
\* cluster decision and the sizes.
DelayDraws == {0}
ClusterDraws == Rand
SizeDraws == {500}

(***************************************************************************)
(* Constants of the source.                                                *)
(***************************************************************************)
PLAYER_SIZE == 56
GROUND_HEIGHT == 56
MAX_DELTA == 32
REDUCED_MAX_DELTA == 20
RAMP_CAP == 17500000
REMOVE_MARGIN == 40
SPAWN_MARGIN == 48

JumpKeys == {"Space", "ArrowUp", "KeyW"}
\* Key codes the environment presses.
InputKeys == {"Space", "KeyR"}

ModeIds == {"pikachu", "charizard", "gengar", "capybara"}

\* speed in 1/10, speedRamp in 1/1000, gravity in 1/100, jumpVelocity in 1/10.
GAME_MODES ==
  [ pikachu |->
      [ id |-> "pikachu", ability |-> "doubleJump", speed |-> 36, speedRamp |-> 32,
        gravity |-> 78, jumpVelocity |-> 110, spawnIntervalRange |-> <<1300, 1700>>,
        obstacleHeight |-> <<48, 78>>, hitboxPadding |-> 0 ],
    charizard |->
      [ id |-> "charizard", ability |-> "glide", speed |-> 42, speedRamp |-> 38,
        gravity |-> 62, jumpVelocity |-> 105, spawnIntervalRange |-> <<1125, 1500>>,
        obstacleHeight |-> <<52, 88>>, hitboxPadding |-> 0 ],
    gengar |->
      [ id |-> "gengar", ability |-> "phase", speed |-> 34, speedRamp |-> 28,
        gravity |-> 74, jumpVelocity |-> 108, spawnIntervalRange |-> <<1050, 1380>>,
        obstacleHeight |-> <<56, 96>>, hitboxPadding |-> 6 ],
    capybara |->
      [ id |-> "capybara", ability |-> "chill", speed |-> 30, speedRamp |-> 18,
        gravity |-> 70, jumpVelocity |-> 105, spawnIntervalRange |-> <<1500, 1900>>,
        obstacleHeight |-> <<44, 72>>, hitboxPadding |-> 0 ] ]

milestoneThresholds == <<24, 60, 110>>

\* Math.round(width * 0.6) and Math.round(width * 0.55) for a whole width.
computeDimensions(innerWidth) ==
  LET isNarrow == innerWidth < 1024
      padding == IF isNarrow THEN 28 ELSE 80
      maxWidth == IF isNarrow THEN 720 ELSE 900
      width == Max(320, Min(innerWidth - padding, maxWidth))
      rounded == IF isNarrow THEN (6 * width + 5) \div 10
                 ELSE (55 * width + 50) \div 100
      height == Max(260, Min(rounded, IF isNarrow THEN 340 ELSE 420))
  IN  [width |-> width, height |-> height]

\* Math.random() * (max - min) + min for the draw r / 1000.
randomBetween(min, max, r) == min + ((max - min) * r) \div 10 ^ 3

rollSpawnDelay(entry, r) ==
  randomBetween(entry.spawnIntervalRange[1], entry.spawnIntervalRange[2], r)

\* A faulty test that lets rectangles collide when they only touch.
boxesIntersectTouching(a, b) ==
  /\ a.x <= b.x + b.width
  /\ a.x + a.width >= b.x
  /\ a.y <= b.y + b.height
  /\ a.height + a.y >= b.y

boxesIntersect(a, b) ==
  /\ a.x < b.x + b.width
  /\ a.x + a.width > b.x
  /\ a.y < b.y + b.height
  /\ a.height + a.y > b.y

abilityControlHints(ability) == <<"controlHint", ability>>
abilityDescription(m) == <<"abilityDescription", m.id>>
abilityMilestoneHints(ability, i) ==
  <<"milestoneHint", ability, CASE i = 0 -> "first" [] i = 1 -> "second" [] OTHER -> "third">>

VARIABLES
  modeId,               \* useState modeId
  dimensions,           \* useState dimensions
  prefersReducedMotion, \* useState prefersReducedMotion
  gameState,            \* useState gameState
  score,                \* useState score (the displayed score)
  bestScores,           \* useState bestScores
  modeHint,             \* useState modeHint
  abilityBanner,        \* useState abilityBanner and abilityMessageRef
  progression,          \* useState progression, in 1/(0.75 * RS)
  playerRef,
  obstaclesRef,
  nextObstacleId,
  scoreRef,
  keysRef,              \* the held codes among those the loop reads
  milestoneRef,
  elapsedRef,
  spawnTimerRef,
  frameQueue,           \* callbacks passed to requestAnimationFrame by the
                        \* input handlers, each with the render it closed over
  runs                  \* number of startGame calls so far

vars == << modeId, dimensions, prefersReducedMotion, gameState, score, bestScores,
           modeHint, abilityBanner, progression, playerRef, obstaclesRef,
           nextObstacleId, scoreRef, keysRef, milestoneRef, elapsedRef,
           spawnTimerRef, frameQueue, runs >>

mode == GAME_MODES[modeId]
groundLevelOf(dims) == dims.height - GROUND_HEIGHT
groundLevel == groundLevelOf(dimensions)

\* The player record prepareScene installs.
startingPlayer(dims) ==
  [ x |-> Min(120 * XS, (dims.width * 2 * XS) \div 10),
    y |-> (groundLevelOf(dims) - PLAYER_SIZE) * YS,
    width |-> PLAYER_SIZE * XS,
    height |-> PLAYER_SIZE * YS,
    velocityY |-> 0,
    jumpsUsed |-> 0 ]

\* A faulty prepareScene that leaves the accumulated score in scoreRef.
prepareSceneKeepsScore(m, dims, r) ==
  /\ playerRef' = startingPlayer(dims)
  /\ obstaclesRef' = <<>>
  /\ nextObstacleId' = 0
  /\ scoreRef' = scoreRef
  /\ milestoneRef' = 0
  /\ elapsedRef' = 0
  /\ spawnTimerRef' = rollSpawnDelay(m, r)
  /\ score' = 0
  /\ modeHint' = abilityDescription(m)
  /\ abilityBanner' = abilityControlHints(m.ability)
  /\ progression' = 0

\* A faulty prepareScene that forgets to reset the milestone index.
prepareSceneKeepsMilestone(m, dims, r) ==
  /\ playerRef' = startingPlayer(dims)
  /\ obstaclesRef' = <<>>
  /\ nextObstacleId' = 0
  /\ scoreRef' = 0
  /\ milestoneRef' = milestoneRef
  /\ elapsedRef' = 0
  /\ spawnTimerRef' = rollSpawnDelay(m, r)
  /\ score' = 0
  /\ modeHint' = abilityDescription(m)
  /\ abilityBanner' = abilityControlHints(m.ability)
  /\ progression' = 0

\* prepareScene as rendered with mode m and dimensions dims; r is the draw
\* of rollSpawnDelay.
prepareScene(m, dims, r) ==
  /\ playerRef' = startingPlayer(dims)
  /\ obstaclesRef' = <<>>
  /\ nextObstacleId' = 0
  /\ scoreRef' = 0
  /\ milestoneRef' = 0
  /\ elapsedRef' = 0
  /\ spawnTimerRef' = rollSpawnDelay(m, r)
  /\ score' = 0
  /\ modeHint' = abilityDescription(m)
  /\ abilityBanner' = abilityControlHints(m.ability)
  /\ progression' = 0

startGame(r) ==
  /\ prepareScene(mode, dimensions, r)
  /\ gameState' = "playing"
  /\ runs' = runs + 1

\* A faulty updater that stores the final score without comparing.
bestScoresOverwrite(prev, id, currentScore) == [prev EXCEPT ![id] = currentScore]

\* The updater endGame passes to setBestScores.
bestScoresUpdate(prev, id, currentScore) ==
  IF currentScore > prev[id] THEN [prev EXCEPT ![id] = currentScore] ELSE prev

\* A faulty endGame that records the score but leaves the game state.
endGameStays ==
  /\ UNCHANGED gameState
  /\ bestScores' = bestScoresUpdate(bestScores, mode.id, scoreRef \div SS)

\* A faulty endGame that credits the score to every mode.
endGameAllModes ==
  /\ gameState' = "gameOver"
  /\ bestScores' = [id \in ModeIds |-> Max(bestScores[id], scoreRef \div SS)]

\* A faulty endGame that rounds the score to the nearest integer.
endGameRounds ==
  /\ gameState' = "gameOver"
  /\ bestScores' = bestScoresUpdate(bestScores, mode.id, (scoreRef + SS \div 2) \div SS)

endGame ==
  /\ gameState' = "gameOver"
  /\ bestScores' = bestScoresUpdate(bestScores, mode.id, scoreRef \div SS)

\* A faulty jump that does not look at the game state.
jumpAnyState(gs, m, player) ==
  LET maxJumps == IF m.ability = "doubleJump" THEN 2 ELSE 1
  IN  IF player.jumpsUsed >= maxJumps THEN player
      ELSE [player EXCEPT !.velocityY = -(m.jumpVelocity * (VS \div 10)),
                          !.y = player.y - YS,
                          !.jumpsUsed = player.jumpsUsed + 1]

\* A faulty jump that does not count the jumps used.
jumpUnlimited(gs, m, player) ==
  IF gs # "playing" THEN player
  ELSE [player EXCEPT !.velocityY = -(m.jumpVelocity * (VS \div 10)),
                      !.y = player.y - YS,
                      !.jumpsUsed = player.jumpsUsed + 1]

\* A faulty jump that sets twice the mode's jump velocity.
jumpTwiceAsHard(gs, m, player) ==
  IF gs # "playing" THEN player
  ELSE LET maxJumps == IF m.ability = "doubleJump" THEN 2 ELSE 1
       IN  IF player.jumpsUsed >= maxJumps THEN player
           ELSE [player EXCEPT !.velocityY = -(2 * m.jumpVelocity * (VS \div 10)),
                               !.y = player.y - YS,
                               !.jumpsUsed = player.jumpsUsed + 1]

\* jump as created by a render with game state gs and mode m, applied to
\* player: the player record it leaves.
jump(gs, m, player) ==
  IF gs # "playing" THEN player
  ELSE LET maxJumps == IF m.ability = "doubleJump" THEN 2 ELSE 1
       IN  IF player.jumpsUsed >= maxJumps THEN player
           ELSE [player EXCEPT !.velocityY = -(m.jumpVelocity * (VS \div 10)),
                               !.y = player.y - YS,
                               !.jumpsUsed = player.jumpsUsed + 1]

\* The component once mounted: the initial values of lines 201-237 after
\* the mount effects, of which lines 386-389 run prepareScene.
CatalogInit ==
  /\ modeId = "pikachu"
  /\ dimensions = computeDimensions(InitialInnerWidth)
  /\ prefersReducedMotion = FALSE
  /\ gameState = "menu"
  /\ score = 0
  /\ bestScores = [id \in ModeIds |-> 0]
  /\ modeHint = abilityDescription(GAME_MODES["pikachu"])
  /\ abilityBanner = abilityControlHints(GAME_MODES["pikachu"].ability)
  /\ progression = 0
  /\ playerRef = startingPlayer(dimensions)
  /\ obstaclesRef = <<>>
  /\ nextObstacleId = 0
  /\ scoreRef = 0
  /\ keysRef = {}
  /\ milestoneRef = 0
  /\ elapsedRef = 0
  /\ spawnTimerRef \in {rollSpawnDelay(GAME_MODES["pikachu"], r) : r \in DelayDraws}
  /\ frameQueue = <<>>
  /\ runs = 0

(***************************************************************************)
(* The animation-frame callback step, lines 397-534.                       *)
(***************************************************************************)
\* A faulty delta without the cap of 32 ms.
stepDeltaUncapped(raw, reduced) ==
  IF reduced THEN Min(REDUCED_MAX_DELTA, raw) ELSE raw

\* deltaRaw and delta for a gap of raw ms since lastTime.
stepDelta(raw, reduced) ==
  LET deltaRaw == Min(MAX_DELTA, raw)
  IN  IF reduced THEN Min(REDUCED_MAX_DELTA, deltaRaw) ELSE deltaRaw

isHoldingJump(keys) == keys \cap JumpKeys # {}

\* A faulty gravity that acts once per tick, however long the tick.
gravityStepPerTick(m, holding, delta) ==
  LET gravityModifier == IF m.ability = "glide" /\ holding THEN 45 ELSE 100
  IN  m.gravity * gravityModifier * Min(delta, 17)

\* gravity * (delta / 16.67) in velocity units: mode.gravity * gravityModifier.
gravityStep(m, holding, delta) ==
  LET gravityModifier == IF m.ability = "glide" /\ holding THEN 45 ELSE 100
  IN  m.gravity * gravityModifier * delta

\* The floor clamp, lines 416-420.
clampFloor(player, floorY) ==
  IF player.y > floorY
  THEN [player EXCEPT !.y = floorY, !.velocityY = 0, !.jumpsUsed = 0]
  ELSE player

\* The ceiling clamp, lines 422-425.
\* A faulty ceiling clamp that gives the jumps back as the floor does.
clampCeilingLands(player) ==
  IF player.y < 0 THEN [player EXCEPT !.y = 0, !.velocityY = 0, !.jumpsUsed = 0]
  ELSE player

\* A faulty ceiling clamp that lets the player leave the arena.
clampCeilingNone(player) == player

clampCeiling(player) ==
  IF player.y < 0 THEN [player EXCEPT !.y = 0, !.velocityY = 0] ELSE player

\* Vertical integration and clamps, lines 411-425.
integrate(player, m, holding, delta, dims) ==
  LET velocityY == player.velocityY + gravityStep(m, holding, delta)
      moved == [player EXCEPT !.velocityY = velocityY, !.y = player.y + velocityY * delta]
      floorY == (groundLevelOf(dims) - PLAYER_SIZE) * YS
  IN  clampCeiling(clampFloor(moved, floorY))

\* rampMultiplier in 1/RS, lines 427-431: speedRamp is in 1/1000 per second,
\* so rampBase - 1 = elapsed * speedRamp * 10 / RS; reduced motion takes 0.6 of it.
rampMultiplier(elapsed, m, reduced) ==
  Min(RAMP_CAP, RS + elapsed * m.speedRamp * (IF reduced THEN 6 ELSE 10))

\* progressValue in 1/(0.75 * RS), line 432.
progressValue(ramp) == Min((RS * 3) \div 4, Max(0, ramp - RS))

\* The updater passed to setProgression, line 433: 0.02 is (RS * 3 / 4) / 50.
progressionUpdate(prev, value) ==
  IF Abs(prev - value) > (RS * 3) \div 200 THEN value ELSE prev

\* distance in 1/XS px, lines 435-436, rounded down.
scrollDistance(m, ramp, delta) ==
  LET speedModifier == IF m.ability = "chill" THEN 8 ELSE 10
  IN  (m.speed * speedModifier * delta * (ramp \div 10 ^ 3)) \div (10 * FRAME)

\* A faulty filter that drops an obstacle as soon as it is off the canvas.
movedObstaclesAtEdge(obstacles, distance) ==
  LET moved == [i \in DOMAIN obstacles |->
                  [obstacles[i] EXCEPT !.x = obstacles[i].x - distance]]
  IN  SelectSeq(moved, LAMBDA o : o.x + o.width > 0)

\* Lines 438-440: move every obstacle, keep those still right of the margin.
movedObstacles(obstacles, distance) ==
  LET moved == [i \in DOMAIN obstacles |->
                  [obstacles[i] EXCEPT !.x = obstacles[i].x - distance]]
  IN  SelectSeq(moved, LAMBDA o : o.x + o.width > -(REMOVE_MARGIN * XS))

clusterChance(m) == IF m.ability = "phase" THEN 45 ELSE 32

\* Math.random() < clusterChance ? 2 : 1 for the draw r / 1000.
clusterCount(m, r) == IF r < clusterChance(m) * 10 THEN 2 ELSE 1

\* A faulty obstacle created at the right edge of the viewport.
newObstacleAtEdge(m, dims, id, offset, count, rh, rw) ==
  LET height == randomBetween(m.obstacleHeight[1], m.obstacleHeight[2], rh)
      width == randomBetween(IF count > 1 THEN 30 ELSE 34, IF count > 1 THEN 56 ELSE 72, rw)
  IN  [ id |-> id,
        x |-> dims.width * XS + offset,
        y |-> (groundLevelOf(dims) - height) * YS,
        width |-> width * XS,
        height |-> height * YS ]

\* One obstacle of the spawn loop, lines 452-461.
newObstacle(m, dims, id, offset, count, rh, rw) ==
  LET height == randomBetween(m.obstacleHeight[1], m.obstacleHeight[2], rh)
      width == randomBetween(IF count > 1 THEN 30 ELSE 34, IF count > 1 THEN 56 ELSE 72, rw)
  IN  [ id |-> id,
        x |-> (dims.width + SPAWN_MARGIN) * XS + offset,
        y |-> (groundLevelOf(dims) - height) * YS,
        width |-> width * XS,
        height |-> height * YS ]

\* A faulty spawn loop that leaves the width of the first obstacle out of
\* the offset of the second.
newObstaclesNoWidth(m, dims, firstId, d) ==
  LET count == clusterCount(m, d.cluster)
      first == newObstacle(m, dims, firstId, 0, count, d.h1, d.w1)
      offset == randomBetween(54, 84, d.g1) * XS
      second == newObstacle(m, dims, firstId + 1, offset, count, d.h2, d.w2)
  IN  IF count > 1 THEN <<first, second>> ELSE <<first>>

\* A faulty spawn loop that reads the counter without incrementing it.
newObstaclesOneId(m, dims, firstId, d) ==
  LET count == clusterCount(m, d.cluster)
      first == newObstacle(m, dims, firstId, 0, count, d.h1, d.w1)
      offset == first.width + randomBetween(54, 84, d.g1) * XS
      second == newObstacle(m, dims, firstId, offset, count, d.h2, d.w2)
  IN  IF count > 1 THEN <<first, second>> ELSE <<first>>

\* The spawn loop, lines 448-464; d holds the random draws in call order.
newObstacles(m, dims, firstId, d) ==
  LET count == clusterCount(m, d.cluster)
      first == newObstacle(m, dims, firstId, 0, count, d.h1, d.w1)
      offset == first.width + randomBetween(54, 84, d.g1) * XS
      second == newObstacle(m, dims, firstId + 1, offset, count, d.h2, d.w2)
  IN  IF count > 1 THEN <<first, second>> ELSE <<first>>

\* A faulty timer that a spawn leaves at zero.
nextSpawnTimerZero(m, d) == 0

\* Line 467-468: the timer after a spawn.
nextSpawnTimer(m, d) ==
  LET recoveryDelay == IF clusterCount(m, d.cluster) > 1
                       THEN randomBetween(220, 340, d.recovery) ELSE 0
  IN  rollSpawnDelay(m, d.delay) + recoveryDelay

\* A faulty hitbox that is the whole player rectangle.
playerBoxWhole(player, m) ==
  [ x |-> player.x, y |-> player.y, width |-> player.width, height |-> player.height ]

\* The padded hitbox, lines 471-477.
playerBox(player, m) ==
  [ x |-> player.x + m.hitboxPadding * XS,
    y |-> player.y + m.hitboxPadding * YS,
    width |-> player.width - m.hitboxPadding * 2 * XS,
    height |-> player.height - m.hitboxPadding * 2 * YS ]

\* Line 479.
collided(box, obstacles) ==
  \E i \in DOMAIN obstacles : boxesIntersect(box, obstacles[i])

\* Line 486: delta * 0.015 * mode.speed * rampMultiplier in 1/SS, rounded down.
\* A faulty score gain with the sign reversed.
scoreLoss(m, ramp, delta) == -((delta * 15 * m.speed * (ramp \div 10 ^ 3)) \div 10 ^ 3)

scoreGain(m, ramp, delta) == (delta * 15 * m.speed * (ramp \div 10 ^ 3)) \div 10 ^ 3

\* A faulty test that compares every milestone with the first threshold.
milestoneReachedFirst(milestone, points) ==
  /\ milestone < Len(milestoneThresholds)
  /\ points >= milestoneThresholds[1] * SS

\* Lines 490-497: whether the next milestone is reached.
milestoneReached(milestone, points) ==
  /\ milestone < Len(milestoneThresholds)
  /\ points >= milestoneThresholds[milestone + 1] * SS

\* Lines 499-530: the banner text after the tick.
bannerOf(m, player, holding, obstacles, ramp) ==
  CASE m.ability = "doubleJump" ->
         IF player.jumpsUsed >= 2 THEN "Touch down to recharge"
         ELSE IF player.jumpsUsed = 0 THEN "Double jump primed"
         ELSE "Second jump ready"
    [] m.ability = "glide" ->
         IF holding /\ player.velocityY > 0 THEN "Gliding" ELSE "Hold jump mid-air"
    [] m.ability = "phase" ->
         IF \E i \in DOMAIN obstacles :
              /\ obstacles[i].x - player.x < 140 * XS
              /\ obstacles[i].x + obstacles[i].width > player.x
         THEN "Thread the gap" ELSE "Line up early"
    [] OTHER ->
         IF ramp > (RS * 5) \div 4 THEN "The world stirs" ELSE "Everything moves softer"

SpawnDraws ==
  [ cluster : ClusterDraws, h1 : SizeDraws, w1 : SizeDraws, g1 : SizeDraws,
    h2 : SizeDraws, w2 : SizeDraws, recovery : SizeDraws, delay : DelayDraws ]

\* One run of step: raw is time - lastTime, d the draws of a spawn.
step(raw, d) ==
  /\ gameState = "playing"
  /\ frameQueue = <<>>
  /\ elapsedRef < MaxElapsed
  /\ LET delta == stepDelta(raw, prefersReducedMotion)
         holding == isHoldingJump(keysRef)
         elapsed == elapsedRef + delta
         timer == spawnTimerRef - delta
         player == integrate(playerRef, mode, holding, delta, dimensions)
         ramp == rampMultiplier(elapsed, mode, prefersReducedMotion)
         moved == movedObstacles(obstaclesRef, scrollDistance(mode, ramp, delta))
         spawning == timer <= 0
         spawned == IF spawning THEN newObstacles(mode, dimensions, nextObstacleId, d)
                    ELSE <<>>
         obstacles == moved \o spawned
         points == scoreRef + scoreGain(mode, ramp, delta)
     IN  /\ elapsedRef' = elapsed
         /\ playerRef' = player
         /\ progression' = progressionUpdate(progression, progressValue(ramp))
         /\ obstaclesRef' = obstacles
         /\ nextObstacleId' = nextObstacleId + Len(spawned)
         /\ spawnTimerRef' = IF spawning THEN nextSpawnTimer(mode, d) ELSE timer
         /\ IF collided(playerBox(player, mode), obstacles)
            THEN /\ endGame
                 /\ UNCHANGED << scoreRef, score, milestoneRef, modeHint, abilityBanner >>
            ELSE /\ scoreRef' = points
                 /\ score' = points \div SS
                 /\ IF milestoneReached(milestoneRef, points)
                    THEN /\ modeHint' = abilityMilestoneHints(mode.ability, milestoneRef)
                         /\ milestoneRef' = milestoneRef + 1
                    ELSE UNCHANGED << modeHint, milestoneRef >>
                 /\ abilityBanner' = bannerOf(mode, player, holding, obstacles, ramp)
                 /\ UNCHANGED << gameState, bestScores >>
  /\ UNCHANGED << modeId, dimensions, prefersReducedMotion, keysRef, frameQueue, runs >>

frame ==
  \E raw \in (IF elapsedRef = 0 THEN FirstGaps ELSE SteadyGaps) :
    IF spawnTimerRef - stepDelta(raw, prefersReducedMotion) <= 0
    THEN \E d \in SpawnDraws : step(raw, d)
    ELSE step(raw, CHOOSE d \in SpawnDraws : TRUE)

(***************************************************************************)
(* Input handlers and effects.                                             *)
(***************************************************************************)
\* requestAnimationFrame(() => { jump(); }) in a handler of a render with
\* game state gs and mode id: the callback keeps that render's jump.
jumpCallback(gs, id) == [gameState |-> gs, modeId |-> id]

\* Lines 320-329 and 337-344: a jump command.
jumpCommand(r) ==
  IF gameState # "playing"
  THEN /\ startGame(r)
       /\ frameQueue' = Append(frameQueue, jumpCallback(gameState, modeId))
       /\ UNCHANGED << bestScores >>
  ELSE /\ playerRef' = jump(gameState, mode, playerRef)
       /\ UNCHANGED << gameState, score, bestScores, modeHint, abilityBanner,
                       progression, obstaclesRef, nextObstacleId, scoreRef,
                       milestoneRef, elapsedRef, spawnTimerRef, frameQueue, runs >>

handlePointerDown ==
  /\ \E r \in DelayDraws : jumpCommand(r)
  /\ UNCHANGED << modeId, dimensions, prefersReducedMotion, keysRef >>

\* onKeyDown, lines 332-350.
onKeyDown(code) ==
  /\ keysRef' = keysRef \cup ({code} \cap JumpKeys)
  /\ IF code \in JumpKeys
     THEN \E r \in DelayDraws : jumpCommand(r)
     ELSE IF code = "KeyR" /\ gameState = "gameOver"
     THEN /\ \E r \in DelayDraws : startGame(r)
          /\ UNCHANGED << bestScores, frameQueue >>
     ELSE UNCHANGED << gameState, score, bestScores, modeHint, abilityBanner,
                       progression, playerRef, obstaclesRef, nextObstacleId,
                       scoreRef, milestoneRef, elapsedRef, spawnTimerRef,
                       frameQueue, runs >>
  /\ UNCHANGED << modeId, dimensions, prefersReducedMotion >>

\* onKeyUp, lines 352-354.
onKeyUp(code) ==
  /\ code \in keysRef
  /\ keysRef' = keysRef \ {code}
  /\ UNCHANGED << modeId, dimensions, prefersReducedMotion, gameState, score,
                  bestScores, modeHint, abilityBanner, progression, playerRef,
                  obstaclesRef, nextObstacleId, scoreRef, milestoneRef, elapsedRef,
                  spawnTimerRef, frameQueue, runs >>

\* The Start Run button, lines 722 and 738-744: rendered while not playing.
startButton ==
  /\ gameState # "playing"
  /\ \E r \in DelayDraws : startGame(r)
  /\ UNCHANGED << modeId, dimensions, prefersReducedMotion, bestScores, keysRef,
                  frameQueue >>

\* The callback queued by a jump command, run at the next animation frame.
queuedJump ==
  /\ frameQueue # <<>>
  /\ LET callback == Head(frameQueue)
     IN  playerRef' = jump(callback.gameState, GAME_MODES[callback.modeId], playerRef)
  /\ frameQueue' = Tail(frameQueue)
  /\ UNCHANGED << modeId, dimensions, prefersReducedMotion, gameState, score,
                  bestScores, modeHint, abilityBanner, progression, obstaclesRef,
                  nextObstacleId, scoreRef, keysRef, milestoneRef, elapsedRef,
                  spawnTimerRef, runs >>

\* A faulty scene effect that returns to the menu without prepareScene.
sceneEffectKeeps(id, dims, r) ==
  /\ gameState' = IF id # modeId \/ dims.width # dimensions.width
                     \/ groundLevelOf(dims) # groundLevel
                  THEN "menu" ELSE gameState
  /\ UNCHANGED << score, modeHint, abilityBanner, progression, playerRef,
                  obstaclesRef, nextObstacleId, scoreRef, milestoneRef, elapsedRef,
                  spawnTimerRef >>

\* The effect run after every render instead of when prepareScene changes.
sceneEffectAlways(id, dims, r) ==
  /\ prepareScene(GAME_MODES[id], dims, r)
  /\ gameState' = "menu"

\* A faulty scene effect whose prepareScene depends on the mode alone.
sceneEffectModeOnly(id, dims, r) ==
  IF id # modeId
  THEN /\ prepareScene(GAME_MODES[id], dims, r)
       /\ gameState' = "menu"
  ELSE UNCHANGED << gameState, score, modeHint, abilityBanner, progression,
                    playerRef, obstaclesRef, nextObstacleId, scoreRef,
                    milestoneRef, elapsedRef, spawnTimerRef >>

\* The effect of lines 386-389, run when prepareScene changes identity, that
\* is when dimensions.width, groundLevel or mode changed in the render.
sceneEffect(id, dims, r) ==
  IF id # modeId \/ dims.width # dimensions.width
     \/ groundLevelOf(dims) # groundLevel
  THEN /\ prepareScene(GAME_MODES[id], dims, r)
       /\ gameState' = "menu"
  ELSE UNCHANGED << gameState, score, modeHint, abilityBanner, progression,
                    playerRef, obstaclesRef, nextObstacleId, scoreRef,
                    milestoneRef, elapsedRef, spawnTimerRef >>

\* A mode button, line 582, with the effects of the render it causes.
selectMode(id) ==
  /\ modeId' = id
  /\ \E r \in DelayDraws : sceneEffect(id, dimensions, r)
  /\ UNCHANGED << dimensions, prefersReducedMotion, bestScores, keysRef,
                  frameQueue, runs >>

\* handleResize, lines 378-380, with the effects of the render it causes.
handleResize(innerWidth) ==
  /\ dimensions' = computeDimensions(innerWidth)
  /\ \E r \in DelayDraws : sceneEffect(modeId, computeDimensions(innerWidth), r)
  /\ UNCHANGED << modeId, prefersReducedMotion, bestScores, keysRef, frameQueue, runs >>

\* updatePreference, line 369.
updatePreference(matches) ==
  /\ prefersReducedMotion' = matches
  /\ UNCHANGED << modeId, dimensions, gameState, score, bestScores, modeHint,
                  abilityBanner, progression, playerRef, obstaclesRef,
                  nextObstacleId, scoreRef, keysRef, milestoneRef, elapsedRef,
                  spawnTimerRef, frameQueue, runs >>

(***************************************************************************)
(* Part II: the auto-upgrade variant, src/unnamed/part_003.                *)
(*                                                                         *)
(* Numbers: x, width and speeds in 1/AXS px, y and height in 1/AYS px      *)
(* (jumpVelocity moves in steps of 0.5), Date.now() in ms.  Names shared   *)
(* with Part I carry the prefix auto.                                      *)
(***************************************************************************)
AXS == 10 ^ 3
AYS == 1 + 1

\* Ticks are taken while Date.now(), which starts at 0, is below MaxNow.
MaxNow == 480
\* ms between two frames.
FrameGap == 16
\* While playing, Space and clicks arrive while autoScore < AutoJumpWindow;
\* resize events arrive while autoScore < ResizeWindow.
AutoJumpWindow == 9
ResizeWindow == 6
\* Math.random() in 1/1000, as drawn by the spawn code.
AutoRand == {0, 900}
\* Key codes the environment presses, and swipe directions.
AutoInputKeys == {"Space", "Escape", "ArrowRight"}
AutoSwipes == {"ArrowRight"}
\* window.innerWidth values of resize events, and at mount.
AutoInnerWidths == {320, 330}
AutoInitialInnerWidth == CHOOSE w \in AutoInnerWidths : \A v \in AutoInnerWidths : w <= v

AUTO_GAME_HEIGHT == 400
AUTO_GROUND_HEIGHT == 50
AUTO_PLAYER_SIZE == 50
SPIKE_WIDTH == 25
SPIKE_HEIGHT == 30
GAME_SPEED == 2500
MAX_SPEED == 5000
FLYING_OBSTACLE_SIZE == 35
FLYING_MODE_THRESHOLD == 1000
GENGAR_MODE_THRESHOLD == 5000
CHARIZARD_SIZE == 50
GENGAR_SIZE == AUTO_PLAYER_SIZE - 14
FLYING_GRACE == 2000
GENGAR_GRACE == 5000
\* The key codes the game loop reads.
AutoReadKeys == {"ArrowLeft", "KeyA", "ArrowRight", "KeyD", "ArrowUp", "KeyW",
                 "ArrowDown", "KeyS"}
\* flyingModeChangedAt / gengarModeChangedAt when null.
Null == -1

getGameDimensions(innerWidth) ==
  LET mobile == innerWidth < 768
  IN  [ width |-> IF mobile THEN Min(innerWidth - 20, 400) ELSE 800,
        height |-> IF mobile THEN 300 ELSE 400 ]

VARIABLES
  autoGameState,        \* useState gameState
  autoScore,            \* useState score
  isMobile,
  gameWidth,
  gameHeight,
  player,
  spikes,
  flyingObstacles,
  isJumping,
  jumpVelocity,         \* in 1/AYS px per tick
  currentSpeed,         \* in 1/AXS px per tick
  keys,                 \* the held codes among those the loop reads
  isFlying,
  flyingY,
  isGengar,
  gravityUp,
  flyingModeChangedAt,
  gengarModeChangedAt,
  spikeIdCounter,
  flyingObstacleIdCounter,
  loopGameWidth,        \* gameWidth as closed over by the scheduled gameLoop
  now                   \* Date.now()

autoVars == << autoGameState, autoScore, isMobile, gameWidth, gameHeight, player,
               spikes, flyingObstacles, isJumping, jumpVelocity, currentSpeed, keys,
               isFlying, flyingY, isGengar, gravityUp, flyingModeChangedAt,
               gengarModeChangedAt, spikeIdCounter, flyingObstacleIdCounter,
               loopGameWidth, now >>

groundY == gameHeight - AUTO_GROUND_HEIGHT

AutoInit ==
  /\ autoGameState = "menu"
  /\ autoScore = 0
  /\ isMobile = (AutoInitialInnerWidth < 768)
  /\ gameWidth = getGameDimensions(AutoInitialInnerWidth).width
  /\ gameHeight = getGameDimensions(AutoInitialInnerWidth).height
  /\ player = [ x |-> 100 * AXS,
                y |-> (AUTO_GAME_HEIGHT - AUTO_GROUND_HEIGHT - AUTO_PLAYER_SIZE) * AYS,
                width |-> AUTO_PLAYER_SIZE * AXS, height |-> AUTO_PLAYER_SIZE * AYS ]
  /\ spikes = <<>>
  /\ flyingObstacles = <<>>
  /\ isJumping = FALSE
  /\ jumpVelocity = 0
  /\ currentSpeed = GAME_SPEED
  /\ keys = {}
  /\ isFlying = FALSE
  /\ flyingY = 0
  /\ isGengar = FALSE
  /\ gravityUp = FALSE
  /\ flyingModeChangedAt = Null
  /\ gengarModeChangedAt = Null
  /\ spikeIdCounter = 0
  /\ flyingObstacleIdCounter = 0
  /\ loopGameWidth = gameWidth
  /\ now = 0

\* The dependencies of the game-loop effect, line 423.
loopDeps ==
  << autoGameState, isJumping, jumpVelocity, player, autoScore, groundY, currentSpeed,
     flyingObstacles, keys, isFlying, isGengar, gravityUp >>

\* The game-loop effect re-runs, and gameLoop closes over the new render,
\* when a dependency changed; it schedules a frame only while playing.
\* keysSet: setKeys was called, which makes a new keys object.
loopEffectAfter(keysSet) ==
  loopGameWidth' = IF keysSet \/ loopDeps' # loopDeps \/ autoGameState' # "playing"
                   THEN gameWidth' ELSE loopGameWidth

loopEffect == loopEffectAfter(FALSE)

\* A faulty guard that keeps the loop scheduled while paused.
loopRunsPaused(gs) == gs \in {"playing", "paused"}

\* Line 226: whether the effect schedules gameLoop.
loopRuns(gs) == gs = "playing"

\* resetGame, lines 135-156.
resetGame ==
  /\ player' = [ x |-> 50 * AXS, y |-> (groundY - AUTO_PLAYER_SIZE) * AYS,
                 width |-> AUTO_PLAYER_SIZE * AXS, height |-> AUTO_PLAYER_SIZE * AYS ]
  /\ spikes' = <<>>
  /\ flyingObstacles' = <<>>
  /\ autoScore' = 0
  /\ isJumping' = FALSE
  /\ jumpVelocity' = 0
  /\ currentSpeed' = GAME_SPEED
  /\ isFlying' = FALSE
  /\ flyingY' = 0
  /\ isGengar' = FALSE
  /\ gravityUp' = FALSE
  /\ flyingModeChangedAt' = Null
  /\ gengarModeChangedAt' = Null
  /\ spikeIdCounter' = 0
  /\ flyingObstacleIdCounter' = 0

\* startGame, lines 158-161, from the START GAME and PLAY AGAIN buttons.
autoStartGame ==
  /\ autoGameState \in {"menu", "gameOver"}
  /\ resetGame
  /\ autoGameState' = "playing"
  /\ UNCHANGED << isMobile, gameWidth, gameHeight, keys, now >>
  /\ loopEffect

\* Line 165: the guard of jump.
jumpAccepted(gs) == gs = "playing"

\* jump, lines 164-181.
autoJump ==
  IF jumpAccepted(autoGameState)
  THEN IF isGengar \/ isFlying
       THEN /\ gravityUp' = ~gravityUp
            /\ UNCHANGED << isJumping, jumpVelocity >>
       ELSE IF ~isJumping
       THEN /\ isJumping' = TRUE
            /\ jumpVelocity' = -(15 * AYS)
            /\ UNCHANGED gravityUp
       ELSE /\ jumpVelocity' = IF jumpVelocity > 0 THEN -(15 * AYS) ELSE jumpVelocity
            /\ UNCHANGED << isJumping, gravityUp >>
  ELSE UNCHANGED << isJumping, jumpVelocity, gravityUp >>

\* What every input handler of Part II leaves alone besides the jump state,
\* the keys and the game state.
sceneUnchanged ==
  UNCHANGED << autoScore, isMobile, gameWidth, gameHeight, player, spikes,
               flyingObstacles, currentSpeed, isFlying, flyingY, isGengar,
               flyingModeChangedAt, gengarModeChangedAt, spikeIdCounter,
               flyingObstacleIdCounter, now >>

\* The toggle written as a two-way conditional, as the button of line 510 has it.
pauseToggleTwoWay(gs) ==
  IF gs = "playing" THEN "paused" ELSE "playing"

\* Lines 430-434 and 510: the pause toggle.
pauseToggle(gs) ==
  IF gs = "playing" THEN "paused" ELSE IF gs = "paused" THEN "playing" ELSE gs

\* handleKeyDown, lines 427-445.
handleKeyDown(code) ==
  /\ IF code = "Escape"
     THEN /\ autoGameState' = pauseToggle(autoGameState)
          /\ UNCHANGED << isJumping, jumpVelocity, gravityUp, keys >>
     ELSE /\ IF code \in {"Space", "ArrowUp"} THEN autoJump
             ELSE UNCHANGED << isJumping, jumpVelocity, gravityUp >>
          /\ keys' = IF autoGameState = "playing"
                     THEN keys \cup ({code} \cap AutoReadKeys) ELSE keys
          /\ UNCHANGED autoGameState
  /\ sceneUnchanged
  /\ loopEffectAfter(code # "Escape" /\ autoGameState = "playing")

\* handleKeyUp, lines 447-449, and the setTimeout callbacks of lines 114-127.
handleKeyUp(code) ==
  /\ keys' = keys \ {code}
  /\ UNCHANGED << autoGameState, isJumping, jumpVelocity, gravityUp >>
  /\ sceneUnchanged
  /\ loopEffectAfter(TRUE)

\* handleClick, lines 451-453; a tap, lines 108-109; the JUMP button, line 669.
handleClick ==
  /\ autoJump
  /\ UNCHANGED << autoGameState, keys >>
  /\ sceneUnchanged
  /\ loopEffect

\* A swipe, lines 110-130, and the mobile direction buttons, lines 643-680.
swipe(code) ==
  /\ autoGameState # "menu"
  /\ code \in {"ArrowLeft", "ArrowRight"} \/ isFlying
  /\ keys' = keys \cup {code}
  /\ UNCHANGED << autoGameState, isJumping, jumpVelocity, gravityUp >>
  /\ sceneUnchanged
  /\ loopEffectAfter(TRUE)

\* The mobile pause button, lines 508-515.
pauseButton ==
  /\ isMobile
  /\ autoGameState \in {"playing", "paused"}
  /\ autoGameState' = pauseToggle(autoGameState)
  /\ UNCHANGED << isJumping, jumpVelocity, gravityUp, keys >>
  /\ sceneUnchanged
  /\ loopEffect

\* The RESUME button, lines 601-606.
resumeButton ==
  /\ autoGameState = "paused"
  /\ autoGameState' = "playing"
  /\ UNCHANGED << isJumping, jumpVelocity, gravityUp, keys >>
  /\ sceneUnchanged
  /\ loopEffect

\* handleResize, lines 81-87.
autoHandleResize(innerWidth) ==
  /\ isMobile' = (innerWidth < 768)
  /\ gameWidth' = getGameDimensions(innerWidth).width
  /\ gameHeight' = getGameDimensions(innerWidth).height
  /\ UNCHANGED << autoGameState, autoScore, player, spikes, flyingObstacles, isJumping,
                  jumpVelocity, currentSpeed, keys, isFlying, flyingY, isGengar,
                  gravityUp, flyingModeChangedAt, gengarModeChangedAt, spikeIdCounter,
                  flyingObstacleIdCounter, now >>
  /\ loopEffect

(***************************************************************************)
(* gameLoop, lines 228-414.                                                *)
(***************************************************************************)
checkCollision(rect1, rect2) ==
  /\ rect1.x < rect2.x + rect2.width
  /\ rect1.x + rect1.width > rect2.x
  /\ rect1.y < rect2.y + rect2.height
  /\ rect1.y + rect1.height > rect2.y

playerSize == IF isFlying THEN CHARIZARD_SIZE ELSE IF isGengar THEN GENGAR_SIZE
              ELSE AUTO_PLAYER_SIZE

\* The updater of setPlayer, lines 229-272, with the state it sets on the
\* way: the player, isJumping, jumpVelocity and flyingY after it.
playerUpdate(prevPlayer, width) ==
  LET left == keys \cap {"ArrowLeft", "KeyA"} # {}
      right == keys \cap {"ArrowRight", "KeyD"} # {}
      up == keys \cap {"ArrowUp", "KeyW"} # {}
      down == keys \cap {"ArrowDown", "KeyS"} # {}
      x1 == IF left THEN Max(0, prevPlayer.x - 6 * AXS) ELSE prevPlayer.x
      newX == IF right THEN Min((width - playerSize) * AXS, x1 + 6 * AXS) ELSE x1
      y0 == prevPlayer.y
      flyUp == IF up THEN Max(50 * AYS, y0 - 4 * AYS) ELSE y0
      flyY == IF down THEN Min((groundY - CHARIZARD_SIZE) * AYS, flyUp + 4 * AYS)
              ELSE flyUp
      gengarY == IF gravityUp THEN Max(y0 - 4 * AYS, 50 * AYS)
                 ELSE Min(y0 + 4 * AYS, (groundY - GENGAR_SIZE) * AYS)
      jumpY == y0 + jumpVelocity
      landed == jumpY >= (groundY - AUTO_PLAYER_SIZE) * AYS
  IN  IF isFlying
      THEN [ player |-> [prevPlayer EXCEPT !.x = newX, !.y = flyY],
             isJumping |-> isJumping, jumpVelocity |-> jumpVelocity, flyingY |-> flyY ]
      ELSE IF isGengar
      THEN [ player |-> [prevPlayer EXCEPT !.x = newX, !.y = gengarY],
             isJumping |-> isJumping, jumpVelocity |-> jumpVelocity, flyingY |-> flyingY ]
      ELSE IF isJumping
      THEN IF landed
           THEN [ player |-> [prevPlayer EXCEPT !.x = newX,
                                                !.y = (groundY - AUTO_PLAYER_SIZE) * AYS],
                  isJumping |-> FALSE, jumpVelocity |-> 0, flyingY |-> flyingY ]
           ELSE [ player |-> [prevPlayer EXCEPT !.x = newX, !.y = jumpY],
                  isJumping |-> TRUE, jumpVelocity |-> jumpVelocity + 1,
                  flyingY |-> flyingY ]
      ELSE [ player |-> [prevPlayer EXCEPT !.x = newX],
             isJumping |-> isJumping, jumpVelocity |-> jumpVelocity, flyingY |-> flyingY ]

\* Lines 276-278.
movedSpikes(prevSpikes) ==
  LET moved == [i \in DOMAIN prevSpikes |->
                  [prevSpikes[i] EXCEPT !.x = prevSpikes[i].x - currentSpeed]]
  IN  SelectSeq(moved, LAMBDA spike : spike.x + spike.width > 0)

\* Lines 291-293.
movedFlyingObstacles(prevObstacles) ==
  LET moved == [i \in DOMAIN prevObstacles |->
                  [prevObstacles[i] EXCEPT !.x = prevObstacles[i].x - prevObstacles[i].speed]]
  IN  SelectSeq(moved, LAMBDA obstacle : obstacle.x + obstacle.width > 0)

\* Lines 281 and 296: the collision test against the player of the render.
hits(objects) == \E i \in DOMAIN objects : checkCollision(player, objects[i])

\* Lines 310-311, 347-348 and 407-408, at Date.now() = t.
isInFlyingGracePeriod(t) ==
  flyingModeChangedAt # Null /\ t - flyingModeChangedAt < FLYING_GRACE /\ isFlying
isInGengarGracePeriod(t) ==
  gengarModeChangedAt # Null /\ t - gengarModeChangedAt < GENGAR_GRACE /\ isGengar
\* A faulty test that forgets the grace period of Gengar mode.
inGracePeriodFlying(t) == isInFlyingGracePeriod(t)

inGracePeriod(t) == isInFlyingGracePeriod(t) \/ isInGengarGracePeriod(t)

\* Lines 305-339: the spikes appended to prevSpikes; d.ceiling and d.ceilingX
\* are the draws of lines 326 and 329.
addedSpikes(prevSpikes, t, width, d) ==
  LET spikeDistance == IF isFlying THEN 200 ELSE 350
      due == \/ prevSpikes = <<>>
             \/ prevSpikes[Len(prevSpikes)].x < (width - spikeDistance) * AXS
      ground == [ id |-> spikeIdCounter, x |-> width * AXS,
                  y |-> (groundY - SPIKE_HEIGHT) * AYS,
                  width |-> SPIKE_WIDTH * AXS, height |-> SPIKE_HEIGHT * AYS ]
      ceiling == [ id |-> spikeIdCounter + 1, x |-> width * AXS + d.ceilingX * 100,
                   y |-> 0, width |-> SPIKE_WIDTH * AXS,
                   height |-> SPIKE_HEIGHT * 2 * AYS ]
  IN  IF ~inGracePeriod(t) /\ due
      THEN IF isFlying /\ d.ceiling < 600 THEN <<ground, ceiling>> ELSE <<ground>>
      ELSE <<>>

\* heights[Math.floor(Math.random() * heights.length)] for the draw r / 1000.
pick(heights, r) == heights[(r * Len(heights)) \div 10 ^ 3 + 1]

\* One flying obstacle of lines 360-395; k is its index in the burst.
flyingObstacle(k, width, spacing, size, heights, spread, d) ==
  [ id |-> flyingObstacleIdCounter + k,
    x |-> (width + k * spacing) * AXS,
    y |-> pick(heights, d.height[k + 1]) * AYS,
    width |-> size * AXS,
    height |-> size * AYS,
    speed |-> currentSpeed + (d.speed[k + 1] * spread) \div 10 ]

\* Lines 342-401: the obstacles appended to prevObstacles.
addedFlyingObstacles(prevObstacles, t, width, d) ==
  LET obstacleDistance == IF isGengar THEN 150 ELSE IF isFlying THEN 250 ELSE 400
      due == \/ prevObstacles = <<>>
             \/ prevObstacles[Len(prevObstacles)].x < (width - obstacleDistance) * AXS
      gengarHeights == << 50, 100, 150, 200, 250, groundY - 80, groundY - 120,
                          groundY - 160, groundY - 200 >>
      flyingHeights == << 50, 120, 200, groundY - 80, groundY - 120, groundY - 160 >>
      normalHeights == << groundY - 80, groundY - 120, groundY - 160 >>
      numObstacles == IF isGengar THEN (IF d.count < 800 THEN 3 ELSE 2)
                      ELSE IF isFlying THEN (IF d.count < 700 THEN 2 ELSE 1)
                      ELSE 1
  IN  IF ~inGracePeriod(t) /\ due
      THEN [ k \in 1 .. numObstacles |->
               IF isGengar
               THEN flyingObstacle(k - 1, width, 60, FLYING_OBSTACLE_SIZE - 10,
                                   gengarHeights, 25, d)
               ELSE IF isFlying
               THEN flyingObstacle(k - 1, width, 80, FLYING_OBSTACLE_SIZE,
                                   flyingHeights, 20, d)
               ELSE flyingObstacle(k - 1, width, 0, FLYING_OBSTACLE_SIZE,
                                   normalHeights, 15, d) ]
      ELSE <<>>

\* The flying effect without its test of isGengar.
flyingActivatesInGengar(s) == s >= FLYING_MODE_THRESHOLD /\ ~isFlying

\* The effect of lines 193-205, for the render after a tick left score s.
flyingActivates(s) == s >= FLYING_MODE_THRESHOLD /\ ~isFlying /\ ~isGengar
\* The effect of lines 208-222.
gengarActivates(s) == s >= GENGAR_MODE_THRESHOLD /\ ~isGengar

\* The draws of one tick; the obstacles of one burst share their draws.
AutoDraws ==
  { [ ceiling |-> r, ceilingX |-> 0, count |-> r,
      height |-> [k \in 1 .. 3 |-> h], speed |-> [k \in 1 .. 3 |-> 0] ] :
    r \in AutoRand, h \in AutoRand }

\* One run of gameLoop and of the render and effects that follow it.
gameLoop(d) ==
  /\ loopRuns(autoGameState)
  /\ LET t == now + FrameGap
         moved == playerUpdate(player, loopGameWidth)
         newGround == movedSpikes(spikes)
         newFlying == movedFlyingObstacles(flyingObstacles)
         addSpikes == addedSpikes(newGround, t, loopGameWidth, d)
         addObstacles == addedFlyingObstacles(newFlying, t, loopGameWidth, d)
         newScore == IF inGracePeriod(t) THEN autoScore ELSE autoScore + 3
     IN  /\ now' = t
         /\ spikes' = newGround \o addSpikes
         /\ flyingObstacles' = newFlying \o addObstacles
         /\ spikeIdCounter' = spikeIdCounter + Len(addSpikes)
         /\ flyingObstacleIdCounter' = flyingObstacleIdCounter + Len(addObstacles)
         /\ autoGameState' = IF hits(newGround) \/ hits(newFlying) THEN "gameOver"
                             ELSE autoGameState
         /\ currentSpeed' = Min(currentSpeed + 1, MAX_SPEED)
         /\ autoScore' = newScore
         /\ isJumping' = moved.isJumping
         /\ jumpVelocity' = moved.jumpVelocity
         /\ IF gengarActivates(newScore)
            THEN /\ isGengar' = TRUE
                 /\ gengarModeChangedAt' = t
                 /\ isFlying' = FALSE
                 /\ flyingModeChangedAt' = Null
                 /\ flyingY' = 0
                 /\ player' = [moved.player EXCEPT !.y = (groundY - GENGAR_SIZE) * AYS,
                                                   !.width = GENGAR_SIZE * AXS,
                                                   !.height = GENGAR_SIZE * AYS]
            ELSE IF flyingActivates(newScore)
            THEN /\ isFlying' = TRUE
                 /\ flyingModeChangedAt' = t
                 /\ flyingY' = (groundY - 150) * AYS
                 /\ player' = [moved.player EXCEPT !.y = (groundY - 150) * AYS,
                                                   !.width = CHARIZARD_SIZE * AXS,
                                                   !.height = CHARIZARD_SIZE * AYS]
                 /\ UNCHANGED << isGengar, gengarModeChangedAt >>
            ELSE /\ player' = moved.player
                 /\ flyingY' = moved.flyingY
                 /\ UNCHANGED << isFlying, isGengar, flyingModeChangedAt,
                                 gengarModeChangedAt >>
  /\ UNCHANGED << isMobile, gameWidth, gameHeight, keys, gravityUp >>
  /\ loopGameWidth' = gameWidth

(***************************************************************************)
(* Part III: what the properties observe, and the specifications.          *)
(***************************************************************************)
VARIABLES
  board,                \* the high-score store: remote rows, the localStorage
                        \* item, and what the calls so far were given and returned
  grace,                \* ms of play, in ticks, of the run and at its latest
                        \* mode upgrade
  twin,                 \* two runs of one mode and setting, ticked by the same
                        \* deltas under inputs and draws of their own
  belt,                 \* the obstacle list of a run that goes on, followed
                        \* through scroll, filter and spawn
  lastRamp,             \* rampMultiplier of the latest tick of the run, 0 before it
  lastSpawn,            \* elapsedRef and obstacle count of the latest spawn of
                        \* the run, NoSpawn before it
  rectA,                \* two rectangles handed to the collision tests
  rectB,
  verdict,              \* what the collision tests returned for them
  arc,                  \* a player followed through one jump in ticks of one
                        \* frame, 16.67 ms
  paths                 \* a player state and what one tick of 32 ms and two
                        \* ticks of 16 ms make of it

observed == << lastRamp, lastSpawn >>
rects == << rectA, rectB, verdict >>
trials == << board, grace, twin, belt, rectA, rectB, verdict, arc, paths >>
allVars == << vars, autoVars, observed, trials >>
catalogRest == << autoVars, observed, trials >>
autoRest == << vars, observed, trials >>

NoSpawn == [at |-> 0, count |-> 0]
NoRect == [x |-> 0, y |-> 0, width |-> 0, height |-> 0]
NoVerdict == [boxesIntersect |-> FALSE, swapped |-> FALSE, checkCollision |-> FALSE,
              applied |-> FALSE]

ObservedInit ==
  /\ lastRamp = 0
  /\ lastSpawn = NoSpawn

NoArc == [modeId |-> "pikachu", groundLevel |-> 0, y |-> 0, velocityY |-> 0,
          jumpsUsed |-> 0, jumped |-> FALSE, ticks |-> 0, landedAt |-> 0]
NoPaths == [modeId |-> "pikachu", holding |-> FALSE, player |-> <<>>,
            one |-> <<>>, two |-> <<>>, clamped |-> FALSE, applied |-> FALSE]

NoBelt == [modeId |-> "pikachu", width |-> 0, reduced |-> FALSE, elapsed |-> 0,
           spawnTimer |-> 0, obstacles |-> <<>>, nextId |-> 0]

NoRun == [player |-> <<>>, holding |-> FALSE, obstacles |-> <<>>, nextId |-> 0,
          spawnTimer |-> 0, elapsed |-> 0, score |-> 0, milestone |-> 0,
          ramp |-> 0, over |-> FALSE]
NoTwin == [modeId |-> "pikachu", reduced |-> FALSE, gap |-> 0, one |-> NoRun, two |-> NoRun]

NoGrace == [played |-> 0, since |-> 0]

NoBoard == [remote |-> <<>>, item |-> [present |-> FALSE, text |-> <<>>],
            submitted |-> <<>>, failed |-> FALSE, returned |-> FALSE,
            shown |-> <<>>, calls |-> 0]

\* The trials that are not under way.
TrialsIdle(idle) ==
  /\ "rects" \in idle => rectA = NoRect /\ rectB = NoRect /\ verdict = NoVerdict
  /\ "arc" \in idle => arc = NoArc
  /\ "paths" \in idle => paths = NoPaths
  /\ "belt" \in idle => belt = NoBelt
  /\ "twin" \in idle => twin = NoTwin
  /\ "grace" \in idle => grace = NoGrace
  /\ "board" \in idle => board = NoBoard

\* Rectangles with corners in 0 .. MaxCorner and sides in 0 .. MaxSide.
MaxCorner == 2
MaxSide == 2
Rects == [x : 0 .. MaxCorner, y : 0 .. MaxCorner, width : 0 .. MaxSide,
          height : 0 .. MaxSide]

jumpArrives == autoGameState = "playing" => autoScore < AutoJumpWindow

AutoGameLoop ==
  /\ now < MaxNow
  /\ \E d \in AutoDraws : gameLoop(d)
  /\ UNCHANGED autoRest
AutoStart ==
  /\ autoStartGame
  /\ UNCHANGED autoRest
AutoKeyDown ==
  /\ \E code \in AutoInputKeys :
       /\ code = "Space" => jumpArrives
       /\ handleKeyDown(code)
  /\ UNCHANGED autoRest
AutoKeyUp ==
  /\ \E code \in AutoInputKeys : handleKeyUp(code)
  /\ UNCHANGED autoRest
AutoClick ==
  /\ jumpArrives
  /\ handleClick
  /\ UNCHANGED autoRest
AutoSwipe ==
  /\ \E code \in AutoSwipes : swipe(code)
  /\ UNCHANGED autoRest
AutoPauseButton ==
  /\ pauseButton
  /\ UNCHANGED autoRest
AutoResume ==
  /\ resumeButton
  /\ UNCHANGED autoRest
AutoResize ==
  /\ autoScore < ResizeWindow
  /\ \E w \in AutoInnerWidths : autoHandleResize(w)
  /\ UNCHANGED autoRest

AutoNext ==
  \/ AutoGameLoop
  \/ AutoStart
  \/ AutoKeyDown
  \/ AutoKeyUp
  \/ AutoClick
  \/ AutoSwipe
  \/ AutoPauseButton
  \/ AutoResume
  \/ AutoResize

Step ==
  /\ frame
  /\ UNCHANGED catalogRest
\* A jump command reaches a running game in its first JumpWindow ms; one
\* that starts a run is bounded by MaxRuns and MaxQueued.
jumpCommandArrives ==
  IF gameState = "playing" THEN elapsedRef < JumpWindow
  ELSE runs < MaxRuns /\ Len(frameQueue) < MaxQueued

PointerDown ==
  /\ jumpCommandArrives
  /\ handlePointerDown
  /\ UNCHANGED catalogRest
KeyDown ==
  /\ \E code \in InputKeys :
       /\ code \in JumpKeys => jumpCommandArrives
       /\ code = "KeyR" /\ gameState = "gameOver" => runs < MaxRuns
       /\ onKeyDown(code)
  /\ UNCHANGED catalogRest
KeyUp ==
  /\ \E code \in InputKeys : onKeyUp(code)
  /\ UNCHANGED catalogRest
StartButton ==
  /\ runs < MaxRuns
  /\ startButton
  /\ UNCHANGED catalogRest
QueuedJump ==
  /\ queuedJump
  /\ UNCHANGED catalogRest
SelectMode ==
  /\ \E id \in ModeIds : selectMode(id)
  /\ UNCHANGED catalogRest
Resize ==
  /\ \E w \in InnerWidths : handleResize(w)
  /\ UNCHANGED catalogRest
\* The media query changes between runs.
UpdatePreference ==
  /\ gameState = "gameOver"
  /\ \E b \in BOOLEAN : updatePreference(b)
  /\ UNCHANGED catalogRest

Next ==
  \/ Step
  \/ PointerDown
  \/ KeyDown
  \/ KeyUp
  \/ StartButton
  \/ QueuedJump
  \/ SelectMode
  \/ Resize
  \/ UpdatePreference

(***************************************************************************)
(* One run of the mode-catalog variant followed to MaxElapsed: the player  *)
(* jumps when an obstacle comes near, the draws of rollSpawnDelay reach    *)
(* both ends of the range, and the media query may change early in the run.*)
(***************************************************************************)
\* A jump key is pressed while an obstacle is between JumpNear and JumpReach
\* px ahead, and released in the air; the mode and the window are chosen
\* in the menu.
JumpNear == 44
JumpReach == 60
\* The media query changes in the first PreferenceWindow ms of the run.
PreferenceWindow == 40
RunDelayDraws == {0, 999}
RunSpawnDraws ==
  [ cluster : ClusterDraws, h1 : SizeDraws, w1 : SizeDraws, g1 : SizeDraws,
    h2 : SizeDraws, w2 : SizeDraws, recovery : SizeDraws, delay : RunDelayDraws ]

obstacleAhead ==
  \E i \in DOMAIN obstaclesRef :
    LET gap == obstaclesRef[i].x - (playerRef.x + playerRef.width)
    IN  gap > JumpNear * XS /\ gap < JumpReach * XS

\* What a tick leaves for the observers.
observeTick ==
  /\ lastRamp' = rampMultiplier(elapsedRef', mode, prefersReducedMotion)
  /\ lastSpawn' = IF nextObstacleId' > nextObstacleId
                  THEN [at |-> elapsedRef', count |-> nextObstacleId' - nextObstacleId]
                  ELSE lastSpawn
  /\ UNCHANGED trials

\* What an input leaves for them: a run that starts or a scene that is
\* prepared again has had no tick and no spawn.
observeInput ==
  LET prepared == \/ gameState # "playing" /\ gameState' = "playing"
                  \/ modeId' # modeId
                  \/ dimensions' # dimensions
  IN  /\ lastRamp' = IF prepared THEN 0 ELSE lastRamp
      /\ lastSpawn' = IF prepared THEN NoSpawn ELSE lastSpawn
      /\ UNCHANGED trials

RunStep ==
  /\ \E raw \in (IF elapsedRef = 0 THEN FirstGaps ELSE SteadyGaps) :
       IF spawnTimerRef - stepDelta(raw, prefersReducedMotion) <= 0
       THEN \E d \in RunSpawnDraws : step(raw, d)
       ELSE step(raw, CHOOSE d \in RunSpawnDraws : TRUE)
  /\ observeTick
  /\ UNCHANGED autoVars
RunStart ==
  /\ runs = 0
  /\ gameState # "playing"
  /\ \E r \in RunDelayDraws : startGame(r)
  /\ UNCHANGED << modeId, dimensions, prefersReducedMotion, bestScores, keysRef,
                  frameQueue >>
  /\ observeInput
  /\ UNCHANGED autoVars
RunKeyDown ==
  /\ gameState = "playing"
  /\ obstacleAhead
  /\ onKeyDown("Space")
  /\ observeInput
  /\ UNCHANGED autoVars
RunKeyUp ==
  /\ playerRef.jumpsUsed > 0
  /\ onKeyUp("Space")
  /\ observeInput
  /\ UNCHANGED autoVars
RunSelectMode ==
  /\ gameState = "menu"
  /\ \E id \in ModeIds : selectMode(id)
  /\ observeInput
  /\ UNCHANGED autoVars
RunResize ==
  /\ gameState = "menu"
  /\ \E w \in InnerWidths : handleResize(w)
  /\ observeInput
  /\ UNCHANGED autoVars
RunPreference ==
  /\ gameState = "playing"
  /\ elapsedRef > 0
  /\ elapsedRef < PreferenceWindow
  /\ updatePreference(~prefersReducedMotion)
  /\ observeInput
  /\ UNCHANGED autoVars

RunNext ==
  \/ RunStep
  \/ RunStart
  \/ RunKeyDown
  \/ RunKeyUp
  \/ RunSelectMode
  \/ RunResize
  \/ RunPreference

(***************************************************************************)
(* One long run of the auto-upgrade variant, followed through both mode    *)
(* upgrades: the player jumps or flips when a spike comes near and every   *)
(* random draw is 0.                                                       *)
(***************************************************************************)
MaxUpgradeNow == 34000
\* A click arrives while a spike is between ClickNear and ClickReach px ahead.
ClickNear == 20
ClickReach == 40
UpgradeDraws ==
  { [ ceiling |-> 0, ceilingX |-> 0, count |-> 0,
      height |-> [k \in 1 .. 3 |-> 0], speed |-> [k \in 1 .. 3 |-> 0] ] }

spikeAhead ==
  \E i \in DOMAIN spikes :
    LET gap == spikes[i].x - (player.x + player.width)
    IN  gap > ClickNear * AXS /\ gap < ClickReach * AXS

UpgradeGameLoop ==
  /\ now < MaxUpgradeNow
  /\ \E d \in UpgradeDraws : gameLoop(d)
  /\ UNCHANGED autoRest
UpgradeStart ==
  /\ autoGameState = "menu"
  /\ autoStartGame
  /\ UNCHANGED autoRest
UpgradeClick ==
  /\ autoGameState = "playing"
  /\ spikeAhead
  /\ handleClick
  /\ UNCHANGED autoRest

UpgradeNext ==
  \/ UpgradeGameLoop
  \/ UpgradeStart
  \/ UpgradeClick

\* Both components as mounted.
Init ==
  /\ CatalogInit
  /\ AutoInit
  /\ ObservedInit
  /\ TrialsIdle({"board", "grace", "twin", "belt", "rects", "arc", "paths"})

\* The mode-catalog variant; the auto-upgrade variant stays as mounted.
Spec == Init /\ [][Next]_allVars

\* One run of the mode-catalog variant, observed.
RunSpec == Init /\ [][RunNext]_allVars

\* One long run of the auto-upgrade variant.
UpgradeSpec == Init /\ [][UpgradeNext]_allVars

\* The collision tests of both variants applied to two rectangles.
Collide ==
  /\ ~verdict.applied
  /\ verdict' = [boxesIntersect |-> boxesIntersect(rectA, rectB),
                 swapped |-> boxesIntersect(rectB, rectA),
                 checkCollision |-> checkCollision(rectA, rectB),
                 applied |-> TRUE]
  /\ UNCHANGED << board, grace, twin, belt, rectA, rectB, arc, paths, vars, autoVars, observed >>

RectsInit ==
  /\ CatalogInit
  /\ AutoInit
  /\ ObservedInit
  /\ rectA \in Rects
  /\ rectB \in Rects
  /\ verdict = NoVerdict
  /\ TrialsIdle({"board", "grace", "twin", "belt", "arc", "paths"})

RectsSpec == RectsInit /\ [][Collide]_allVars

(***************************************************************************)
(* One jump in ticks of exactly one frame.  With delta = 16.67 the factor  *)
(* delta / 16.67 of lines 411-412 is 1: velocityY grows by the gravity and *)
(* y by velocityY.  Here y and velocityY are both in 1/VS px, in which     *)
(* that step is exact.                                                     *)
(***************************************************************************)
MaxArcTicks == 40
\* groundLevel of the arenas of the model and of the 640 x 360 arena that
\* computeDimensions returns without a window.
ArcGroundLevels == {204, 244, 304}

arcPlayer == [y |-> arc.y, velocityY |-> arc.velocityY, jumpsUsed |-> arc.jumpsUsed]
arcFloor == (arc.groundLevel - PLAYER_SIZE) * VS

\* jump, lines 306-318, on the arc's player: jump leaves y 1 px higher.
arcJump ==
  LET after == jump("playing", GAME_MODES[arc.modeId], [arcPlayer EXCEPT !.y = 0])
  IN  [arc EXCEPT !.velocityY = after.velocityY,
                  !.jumpsUsed = after.jumpsUsed,
                  !.y = arc.y + (after.y \div YS) * VS,
                  !.jumped = TRUE]

\* Lines 403-425 for delta = 16.67 with no jump key held.
arcTick ==
  LET velocityY == arc.velocityY
                     + gravityStep(GAME_MODES[arc.modeId], FALSE, FRAME) \div 100
      moved == [arcPlayer EXCEPT !.velocityY = velocityY, !.y = arc.y + velocityY]
      after == clampCeiling(clampFloor(moved, arcFloor))
  IN  [arc EXCEPT !.y = after.y, !.velocityY = after.velocityY,
                  !.jumpsUsed = after.jumpsUsed,
                  !.ticks = IF arc.jumped THEN arc.ticks + 1 ELSE 0,
                  \* the tick whose floor clamp ended the jump
                  !.landedAt = IF arc.jumpsUsed > 0 /\ after.jumpsUsed = 0
                               THEN arc.ticks + 1 ELSE arc.landedAt]

ArcJump ==
  /\ ~arc.jumped
  /\ arc' = arcJump
  /\ UNCHANGED << board, grace, twin, belt, rectA, rectB, verdict, paths, vars, autoVars, observed >>
ArcTick ==
  /\ arc.ticks < MaxArcTicks
  /\ arc' = arcTick
  /\ UNCHANGED << board, grace, twin, belt, rectA, rectB, verdict, paths, vars, autoVars, observed >>

ArcNext ==
  \/ ArcJump
  \/ ArcTick

\* At rest on the floor of any arena in any mode.
ArcInit ==
  /\ CatalogInit
  /\ AutoInit
  /\ ObservedInit
  /\ TrialsIdle({"board", "grace", "twin", "belt", "rects", "paths"})
  /\ \E id \in ModeIds, level \in ArcGroundLevels :
       arc = [modeId |-> id, groundLevel |-> level, y |-> (level - PLAYER_SIZE) * VS,
              velocityY |-> 0, jumpsUsed |-> 0, jumped |-> FALSE, ticks |-> 0,
              landedAt |-> 0]

ArcSpec == ArcInit /\ [][ArcNext]_allVars

(***************************************************************************)
(* One tick of 32 ms against two ticks of 16 ms from the same player.      *)
(***************************************************************************)
\* Heights above which the player starts, in px, and the velocities it
\* starts with, in 1/10 px per frame: up to the strongest jump either way.
PathYs == {0, 60, 120, 180}
PathVelocities == {-110, -70, -40, 0, 40, 110}
\* The longest tick the loop takes, line 399, and half of it.
LongTick == MAX_DELTA
ShortTick == MAX_DELTA \div 2

\* Lines 411-412 alone: the player before the clamps.
moved(before, m, holding, delta) ==
  LET velocityY == before.velocityY + gravityStep(m, holding, delta)
  IN  [before EXCEPT !.velocityY = velocityY, !.y = before.y + velocityY * delta]

\* Whether the tick of delta ms runs the body of a clamp, lines 416 and 422.
clamps(before, m, holding, delta, dims) ==
  LET after == moved(before, m, holding, delta)
  IN  \/ after.y > (groundLevelOf(dims) - PLAYER_SIZE) * YS
      \/ after.y < 0

ComparePaths ==
  /\ ~paths.applied
  /\ LET m == GAME_MODES[paths.modeId]
         dims == computeDimensions(InitialInnerWidth)
         half == integrate(paths.player, m, paths.holding, ShortTick, dims)
     IN  paths' = [paths EXCEPT
           !.one = integrate(paths.player, m, paths.holding, LongTick, dims),
           !.two = integrate(half, m, paths.holding, ShortTick, dims),
           !.clamped = \/ clamps(paths.player, m, paths.holding, LongTick, dims)
                       \/ clamps(paths.player, m, paths.holding, ShortTick, dims)
                       \/ clamps(half, m, paths.holding, ShortTick, dims),
           !.applied = TRUE]
  /\ UNCHANGED << board, grace, twin, belt, rectA, rectB, verdict, arc, vars, autoVars, observed >>

\* A player in the air of the arena the component mounts with, in any mode,
\* with a jump key held or not.
PathsInit ==
  /\ CatalogInit
  /\ AutoInit
  /\ ObservedInit
  /\ TrialsIdle({"board", "grace", "twin", "belt", "rects", "arc"})
  /\ \E id \in ModeIds, holding \in BOOLEAN, y \in PathYs, velocityY \in PathVelocities :
       LET start == [startingPlayer(computeDimensions(InitialInnerWidth)) EXCEPT
                        !.y = y * YS, !.velocityY = velocityY * (VS \div 10),
                        !.jumpsUsed = 1]
       IN  paths = [modeId |-> id, holding |-> holding, player |-> start,
                    one |-> start, two |-> start, clamped |-> FALSE,
                    applied |-> FALSE]

PathsSpec == PathsInit /\ [][ComparePaths]_allVars

(***************************************************************************)
(* Runs in which the obstacles come in pairs as close as the spawn loop    *)
(* makes them, 54 px apart, and the jump key is pressed while one is just  *)
(* ahead: a doubled jump carries the player over the first obstacle of a   *)
(* pair and down between the two.  The mode and the window are chosen in   *)
(* the menu.                                                               *)
(***************************************************************************)
ClusterNear == 0
ClusterReach == 30
ClusterWidthDraws == {250}
ClusterGapDraws == {0}
\* The lowest, the middle and the highest obstacle of the mode.
ClusterHeightDraws == {0, 500, 999}
ClusterSpawnDraws ==
  [ cluster : ClusterDraws, h1 : ClusterHeightDraws, w1 : ClusterWidthDraws,
    g1 : ClusterGapDraws, h2 : ClusterHeightDraws, w2 : SizeDraws,
    recovery : SizeDraws, delay : DelayDraws ]

\* The obstacles that intersect the padded player box.
hitting ==
  {i \in DOMAIN obstaclesRef : boxesIntersect(playerBox(playerRef, mode), obstaclesRef[i])}

obstacleClose ==
  \E i \in DOMAIN obstaclesRef :
    LET gap == obstaclesRef[i].x - (playerRef.x + playerRef.width)
    IN  gap > ClusterNear * XS /\ gap < ClusterReach * XS

ClusterStep ==
  /\ \E raw \in (IF elapsedRef = 0 THEN FirstGaps ELSE SteadyGaps) :
       IF spawnTimerRef - stepDelta(raw, prefersReducedMotion) <= 0
       THEN \E d \in ClusterSpawnDraws : step(raw, d)
       ELSE step(raw, CHOOSE d \in ClusterSpawnDraws : TRUE)
  /\ UNCHANGED catalogRest
ClusterKeyDown ==
  /\ gameState = "playing"
  /\ obstacleClose
  /\ onKeyDown("Space")
  /\ UNCHANGED catalogRest
ClusterKeyUp ==
  /\ playerRef.jumpsUsed > 0
  /\ onKeyUp("Space")
  /\ UNCHANGED catalogRest
\* The first run, and another one after a run that a pair of obstacles ended.
ClusterStart ==
  /\ runs < MaxRuns
  /\ gameState = "gameOver" => Cardinality(hitting) >= 2
  /\ startButton
  /\ UNCHANGED catalogRest
ClusterSelectMode ==
  /\ gameState = "menu"
  /\ \E id \in ModeIds : selectMode(id)
  /\ UNCHANGED catalogRest
ClusterResize ==
  /\ gameState = "menu"
  /\ \E w \in InnerWidths : handleResize(w)
  /\ UNCHANGED catalogRest

ClusterNext ==
  \/ ClusterStep
  \/ ClusterStart
  \/ ClusterKeyDown
  \/ ClusterKeyUp
  \/ ClusterSelectMode
  \/ ClusterResize

ClusterSpec == Init /\ [][ClusterNext]_allVars

(***************************************************************************)
(* The first AirWindow ms of a run in the smallest arena, where the        *)
(* ceiling is nearest, with the jump key pressed and released at any       *)
(* time: no obstacle has arrived yet.                                      *)
(***************************************************************************)
AirWindow == 640

AirStep ==
  /\ elapsedRef < AirWindow
  /\ frame
  /\ UNCHANGED catalogRest
AirStart ==
  /\ runs = 0
  /\ startButton
  /\ UNCHANGED catalogRest
AirSelectMode ==
  /\ gameState = "menu"
  /\ \E id \in ModeIds : selectMode(id)
  /\ UNCHANGED catalogRest
AirKeyDown ==
  /\ gameState = "playing"
  /\ onKeyDown("Space")
  /\ UNCHANGED catalogRest
AirKeyUp ==
  /\ onKeyUp("Space")
  /\ UNCHANGED catalogRest

AirNext ==
  \/ AirStep
  \/ AirStart
  \/ AirSelectMode
  \/ AirKeyDown
  \/ AirKeyUp

AirSpec == Init /\ [][AirNext]_allVars

(***************************************************************************)
(* The obstacle list of a run that goes on: lines 408-409 and 427-469 of   *)
(* every tick, without the player.  Ticks come with the largest delta,     *)
(* spawns with the shortest delay, alone or in pairs; after MaxBeltIds     *)
(* obstacles the list is followed until it is empty.                       *)
(***************************************************************************)
MaxBeltIds == 10
BeltGap == 40

beltDims == computeDimensions(belt.width)

\* One tick: the timers, the ramp, scroll and filter, and the spawn.
beltTick(d) ==
  LET m == GAME_MODES[belt.modeId]
      delta == stepDelta(BeltGap, belt.reduced)
      elapsed == belt.elapsed + delta
      timer == belt.spawnTimer - delta
      ramp == rampMultiplier(elapsed, m, belt.reduced)
      kept == movedObstacles(belt.obstacles, scrollDistance(m, ramp, delta))
      spawning == timer <= 0 /\ belt.nextId < MaxBeltIds
      spawned == IF spawning THEN newObstacles(m, beltDims, belt.nextId, d) ELSE <<>>
  IN  [belt EXCEPT !.elapsed = elapsed,
                   !.obstacles = kept \o spawned,
                   !.nextId = belt.nextId + Len(spawned),
                   !.spawnTimer = IF spawning THEN nextSpawnTimer(m, d)
                                  ELSE IF timer <= 0 THEN belt.spawnTimer ELSE timer]

BeltTick ==
  /\ belt.nextId < MaxBeltIds \/ belt.obstacles # <<>>
  /\ \E d \in SpawnDraws : belt' = beltTick(d)
  /\ UNCHANGED << board, grace, twin, rectA, rectB, verdict, arc, paths, vars, autoVars, observed >>

\* The scene as prepareScene leaves it, lines 273-278, in any mode and arena.
BeltInit ==
  /\ CatalogInit
  /\ AutoInit
  /\ ObservedInit
  /\ TrialsIdle({"board", "grace", "twin", "rects", "arc", "paths"})
  /\ \E id \in ModeIds, w \in InnerWidths, reduced \in BOOLEAN, r \in DelayDraws :
       belt = [modeId |-> id, width |-> w, reduced |-> reduced, elapsed |-> 0,
               spawnTimer |-> rollSpawnDelay(GAME_MODES[id], r),
               obstacles |-> <<>>, nextId |-> 0]

\* Ticks keep occurring.
BeltSpec == BeltInit /\ [][BeltTick]_allVars /\ WF_allVars(BeltTick)

(***************************************************************************)
(* Two runs side by side: the same mode, reduced-motion setting and tick   *)
(* deltas; jump commands, held keys and random draws of their own.         *)
(***************************************************************************)
\* The pair is followed through the first MaxTwinElapsed ms of play.
MaxTwinElapsed == 3200
\* Jump commands arrive while an obstacle is between TwinNear and TwinReach
\* px ahead.
TwinNear == 32
TwinReach == 48
\* time - lastTime of the ticks of a pair, one value for the whole pair.
TwinGaps == {24, 40}
\* The draws of a spawn: a pair with the shortest delay or a single
\* obstacle with a longer one.
TwinDraws ==
  { d \in [ cluster : ClusterDraws, h1 : SizeDraws, w1 : SizeDraws, g1 : SizeDraws,
            h2 : SizeDraws, w2 : SizeDraws, recovery : SizeDraws, delay : Rand ] :
      d.cluster = d.delay }
twinDims == computeDimensions(InitialInnerWidth)

\* A faulty step that doubles the score gain of a tick spent in the air.
runTickAirBonus(run, m, reduced, dims, raw, d) ==
  LET delta == stepDelta(raw, reduced)
      elapsed == run.elapsed + delta
      timer == run.spawnTimer - delta
      after == integrate(run.player, m, run.holding, delta, dims)
      ramp == rampMultiplier(elapsed, m, reduced)
      kept == movedObstacles(run.obstacles, scrollDistance(m, ramp, delta))
      spawning == timer <= 0
      spawned == IF spawning THEN newObstacles(m, dims, run.nextId, d) ELSE <<>>
      obstacles == kept \o spawned
      points == run.score + (IF after.jumpsUsed > 0 THEN 2 ELSE 1) * scoreGain(m, ramp, delta)
      hit == collided(playerBox(after, m), obstacles)
  IN  [run EXCEPT !.elapsed = elapsed,
                  !.player = after,
                  !.obstacles = obstacles,
                  !.nextId = run.nextId + Len(spawned),
                  !.spawnTimer = IF spawning THEN nextSpawnTimer(m, d) ELSE timer,
                  !.ramp = ramp,
                  !.over = hit,
                  !.score = IF hit THEN run.score ELSE points,
                  !.milestone = IF ~hit /\ milestoneReached(run.milestone, points)
                                THEN run.milestone + 1 ELSE run.milestone]

\* step, lines 397-497, on the refs of one run of the pair: run.ramp is the
\* rampMultiplier of the tick, run.over whether the tick called endGame.
runTick(run, m, reduced, dims, raw, d) ==
  LET delta == stepDelta(raw, reduced)
      elapsed == run.elapsed + delta
      timer == run.spawnTimer - delta
      after == integrate(run.player, m, run.holding, delta, dims)
      ramp == rampMultiplier(elapsed, m, reduced)
      kept == movedObstacles(run.obstacles, scrollDistance(m, ramp, delta))
      spawning == timer <= 0
      spawned == IF spawning THEN newObstacles(m, dims, run.nextId, d) ELSE <<>>
      obstacles == kept \o spawned
      points == run.score + scoreGain(m, ramp, delta)
      hit == collided(playerBox(after, m), obstacles)
  IN  [run EXCEPT !.elapsed = elapsed,
                  !.player = after,
                  !.obstacles = obstacles,
                  !.nextId = run.nextId + Len(spawned),
                  !.spawnTimer = IF spawning THEN nextSpawnTimer(m, d) ELSE timer,
                  !.ramp = ramp,
                  !.over = hit,
                  !.score = IF hit THEN run.score ELSE points,
                  !.milestone = IF ~hit /\ milestoneReached(run.milestone, points)
                                THEN run.milestone + 1 ELSE run.milestone]

\* An obstacle is within reach ahead of the player of the run.
runClose(run) ==
  \E i \in DOMAIN run.obstacles :
    LET gap == run.obstacles[i].x - (run.player.x + run.player.width)
    IN  gap > TwinNear * XS /\ gap < TwinReach * XS

\* A run under way takes a jump command.
runJump(run, m) == [run EXCEPT !.player = jump("playing", m, run.player)]

\* Both runs take the tick of the same time - lastTime.
TwinTick ==
  /\ ~twin.one.over /\ ~twin.two.over
  /\ twin.one.elapsed < MaxTwinElapsed
  /\ \E d1, d2 \in TwinDraws :
       LET m == GAME_MODES[twin.modeId]
       IN  twin' = [twin EXCEPT
                      !.one = runTick(twin.one, m, twin.reduced, twinDims, twin.gap, d1),
                      !.two = runTick(twin.two, m, twin.reduced, twinDims, twin.gap, d2)]
  /\ UNCHANGED << board, grace, belt, rectA, rectB, verdict, arc, paths, vars, autoVars, observed >>

\* handlePointerDown, lines 320-329, in the first run.
TwinPointerDown ==
  /\ ~twin.one.over /\ ~twin.two.over
  /\ \E side \in {"one"} :
       /\ runClose(twin[side])
       /\ twin' = [twin EXCEPT ![side] = runJump(twin[side], GAME_MODES[twin.modeId])]
       /\ twin' # twin
  /\ UNCHANGED << board, grace, belt, rectA, rectB, verdict, arc, paths, vars, autoVars, observed >>

\* onKeyDown of a jump key, lines 332-345, in the second run.
TwinKeyDown ==
  /\ ~twin.one.over /\ ~twin.two.over
  /\ \E side \in {"two"} :
       /\ runClose(twin[side])
       /\ ~twin[side].holding
       /\ twin' = [twin EXCEPT ![side] = [runJump(twin[side], GAME_MODES[twin.modeId])
                                            EXCEPT !.holding = TRUE]]
  /\ UNCHANGED << board, grace, belt, rectA, rectB, verdict, arc, paths, vars, autoVars, observed >>

\* onKeyUp, lines 352-354, in the second run.
TwinKeyUp ==
  /\ ~twin.one.over /\ ~twin.two.over
  /\ \E side \in {"two"} :
       /\ twin[side].holding
       /\ twin' = [twin EXCEPT ![side].holding = FALSE]
  /\ UNCHANGED << board, grace, belt, rectA, rectB, verdict, arc, paths, vars, autoVars, observed >>

TwinNext == TwinTick \/ TwinPointerDown \/ TwinKeyDown \/ TwinKeyUp

\* Both runs as startGame leaves them, lines 263-292, the first spawn delay
\* drawn for each.
TwinInit ==
  /\ CatalogInit
  /\ AutoInit
  /\ ObservedInit
  /\ TrialsIdle({"board", "grace", "belt", "rects", "arc", "paths"})
  /\ \E id \in ModeIds, reduced \in BOOLEAN, gap \in TwinGaps, r1 \in DelayDraws, r2 \in Rand :
       LET start(r) == [player |-> startingPlayer(twinDims), holding |-> FALSE,
                        obstacles |-> <<>>, nextId |-> 0,
                        spawnTimer |-> rollSpawnDelay(GAME_MODES[id], r),
                        elapsed |-> 0, score |-> 0, milestone |-> 0,
                        ramp |-> RS, over |-> FALSE]
       IN  twin = [modeId |-> id, reduced |-> reduced, gap |-> gap,
                   one |-> start(r1), two |-> start(r2)]

TwinSpec == TwinInit /\ [][TwinNext]_allVars

(***************************************************************************)
(* The long run of the auto-upgrade variant with a second run after it:    *)
(* PLAY AGAIN is pressed when the first run was lost in Gengar mode.       *)
(***************************************************************************)
ModesRestart ==
  /\ autoGameState = "gameOver"
  /\ isGengar
  /\ autoStartGame
  /\ UNCHANGED autoRest

ModesNext ==
  \/ UpgradeGameLoop
  \/ UpgradeStart
  \/ UpgradeClick
  \/ ModesRestart

ModesSpec == Init /\ [][ModesNext]_allVars

(***************************************************************************)
(* The run of the auto-upgrade variant up to the end of the grace period   *)
(* of flying mode, with pauses inside that period; grace.played counts the *)
(* ms of play, 16 per tick, and grace.since is its value at the upgrade.   *)
(***************************************************************************)
MaxGraceNow == 9000
\* Date.now() moves on by PausedGap ms at a time while the game is paused.
PausedGap == 700

upgraded == isFlying' # isFlying \/ isGengar' # isGengar

GraceGameLoop ==
  /\ now < MaxGraceNow
  /\ \E d \in UpgradeDraws : gameLoop(d)
  /\ grace' = [played |-> grace.played + FrameGap,
               since |-> IF upgraded THEN grace.played + FrameGap ELSE grace.since]
  /\ UNCHANGED << board, twin, belt, rectA, rectB, verdict, arc, paths, vars, observed >>
GraceStart ==
  /\ autoGameState = "menu"
  /\ autoStartGame
  /\ grace' = NoGrace
  /\ UNCHANGED << board, twin, belt, rectA, rectB, verdict, arc, paths, vars, observed >>
GraceClick ==
  /\ autoGameState = "playing"
  /\ spikeAhead
  /\ handleClick
  /\ UNCHANGED autoRest
\* Escape, lines 428-436, pressed in the grace period of flying mode.
GracePause ==
  /\ autoGameState = "playing"
  /\ isInFlyingGracePeriod(now)
  /\ handleKeyDown("Escape")
  /\ UNCHANGED autoRest
GraceResume ==
  /\ autoGameState = "paused"
  /\ handleKeyDown("Escape") \/ resumeButton
  /\ UNCHANGED autoRest
\* Time passes while the game is paused: no frame is scheduled, line 226.
GraceWait ==
  /\ autoGameState = "paused"
  /\ now + PausedGap < MaxGraceNow
  /\ now' = now + PausedGap
  /\ UNCHANGED << autoGameState, autoScore, isMobile, gameWidth, gameHeight, player,
                  spikes, flyingObstacles, isJumping, jumpVelocity, currentSpeed,
                  keys, isFlying, flyingY, isGengar, gravityUp, flyingModeChangedAt,
                  gengarModeChangedAt, spikeIdCounter, flyingObstacleIdCounter,
                  loopGameWidth >>
  /\ UNCHANGED autoRest

GraceNext ==
  \/ GraceGameLoop
  \/ GraceStart
  \/ GraceClick
  \/ GracePause
  \/ GraceResume
  \/ GraceWait

GraceInit ==
  /\ CatalogInit
  /\ AutoInit
  /\ ObservedInit
  /\ TrialsIdle({"board", "grace", "twin", "belt", "rects", "arc", "paths"})

GraceSpec == GraceInit /\ [][GraceNext]_allVars

(***************************************************************************)
(* The high-score store, src/unnamed/part_000: addHighScore and            *)
(* getTopScores against a remote table whose requests succeed or fail, and *)
(* the localStorage item 'pikachu-top-scores'.  A name is the sequence of  *)
(* its characters; the item holds JSON text, a sequence of pairs.          *)
(***************************************************************************)
\* At most MaxCalls calls of addHighScore are made.
MaxCalls == 4
BoardScores == {10, 20}
BoardNames == { <<"a", "s", "h">>,
                <<"p", "r", "o", "f", "e", "s", "s", "o", "r", "O", "k">> }

upperCase == [ a |-> "A", e |-> "E", f |-> "F", h |-> "H", k |-> "K", o |-> "O",
               p |-> "P", r |-> "R", s |-> "S" ]
\* String.prototype.toUpperCase.
toUpperCase(text) ==
  [i \in DOMAIN text |-> IF text[i] \in DOMAIN upperCase THEN upperCase[text[i]]
                         ELSE text[i]]
\* slice(from, to) of a string or array.
slice(seq, from, to) == SubSeq(seq, from + 1, Min(to, Len(seq)))

\* JSON.stringify and JSON.parse of a list of { name, score }.
stringify(list) == [i \in DOMAIN list |-> << list[i].name, list[i].score >>]
parse(text) == [i \in DOMAIN text |-> [name |-> text[i][1], score |-> text[i][2]]]

\* Lines 52-53 and 36-37: the list read from the item, [] when it is absent.
localScores(item) == IF item.present THEN parse(item.text) ELSE <<>>

\* sort((a, b) => b.score - a.score): descending by score, stable.
RECURSIVE sortByScore(_)
sortByScore(list) ==
  IF list = <<>> THEN <<>>
  ELSE LET sorted == sortByScore(SubSeq(list, 1, Len(list) - 1))
           e == list[Len(list)]
           k == Cardinality({i \in DOMAIN sorted : sorted[i].score >= e.score})
       IN  SubSeq(sorted, 1, k) \o << e >> \o SubSeq(sorted, k + 1, Len(sorted))

\* A faulty sort, ascending by score.
RECURSIVE sortByScoreAscending(_)
sortByScoreAscending(list) ==
  IF list = <<>> THEN <<>>
  ELSE LET sorted == sortByScoreAscending(SubSeq(list, 1, Len(list) - 1))
           e == list[Len(list)]
           k == Cardinality({i \in DOMAIN sorted : sorted[i].score <= e.score})
       IN  SubSeq(sorted, 1, k) \o << e >> \o SubSeq(sorted, k + 1, Len(sorted))

\* A faulty addHighScore that keeps the lowest scores.
addHighScoreLowest(store, name, points, error) ==
  LET entry == [name |-> toUpperCase(slice(name, 0, 10)), score |-> points]
  IN  IF error
      THEN LET newTopScores ==
                 slice(sortByScoreAscending(localScores(store.item) \o << entry >>), 0, 3)
           IN  [ remote |-> store.remote,
                 item |-> [present |-> TRUE, text |-> stringify(newTopScores)],
                 returned |-> FALSE ]
      ELSE [ remote |-> Append(store.remote, entry), item |-> store.item,
             returned |-> TRUE ]

\* addHighScore(name, score), lines 44-62, with points for score; error:
\* the insert came back with an error.
addHighScore(store, name, points, error) ==
  LET entry == [name |-> toUpperCase(slice(name, 0, 10)), score |-> points]
  IN  IF error
      THEN LET newTopScores ==
                 slice(sortByScore(localScores(store.item) \o << entry >>), 0, 3)
           IN  [ remote |-> store.remote,
                 item |-> [present |-> TRUE, text |-> stringify(newTopScores)],
                 returned |-> FALSE ]
      ELSE [ remote |-> Append(store.remote, entry), item |-> store.item,
             returned |-> TRUE ]

\* order('score', { ascending: false }).limit(3) on the remote rows: the
\* three highest, rows of equal score in any order.
topRows(rows) ==
  LET n == Len(rows)
      k == Min(3, n)
      picks == { f \in [1 .. k -> 1 .. n] :
                   /\ \A i, j \in 1 .. k : i < j => /\ f[i] # f[j]
                                                    /\ rows[f[i]].score >= rows[f[j]].score
                   /\ \A j \in 1 .. n :
                        (\A i \in 1 .. k : f[i] # j)
                          => \A i \in 1 .. k : rows[j].score <= rows[f[i]].score }
  IN  { [i \in 1 .. k |-> rows[f[i]]] : f \in picks }

\* getTopScores, lines 26-41.
getTopScores(store, error) ==
  IF error THEN {localScores(store.item)} ELSE topRows(store.remote)

AddHighScore ==
  /\ board.calls < MaxCalls
  /\ \E name \in BoardNames, points \in BoardScores, error \in BOOLEAN :
       LET after == addHighScore(board, name, points, error)
       IN  board' = [board EXCEPT
                       !.remote = after.remote,
                       !.item = after.item,
                       !.returned = after.returned,
                       !.failed = error,
                       !.submitted = IF error THEN Append(board.submitted, points)
                                     ELSE board.submitted,
                       !.calls = board.calls + 1]
  /\ UNCHANGED << grace, twin, belt, rectA, rectB, verdict, arc, paths, vars, autoVars, observed >>

GetTopScores ==
  /\ \E error \in BOOLEAN :
       \E rows \in getTopScores(board, error) : board' = [board EXCEPT !.shown = rows]
  /\ UNCHANGED << grace, twin, belt, rectA, rectB, verdict, arc, paths, vars, autoVars, observed >>

BoardNext == AddHighScore \/ GetTopScores

\* No row in the remote table and no item in localStorage.
BoardInit ==
  /\ CatalogInit
  /\ AutoInit
  /\ ObservedInit
  /\ TrialsIdle({"board", "grace", "twin", "belt", "rects", "arc", "paths"})

BoardSpec == BoardInit /\ [][BoardNext]_allVars

\* The auto-upgrade variant; the mode-catalog variant stays as mounted.
AutoSpec == Init /\ [][AutoNext]_allVars

(***************************************************************************)
(* Properties of the mode-catalog variant, stated for Spec.                 *)
(***************************************************************************)
\* The collision test of lines 471-479 as the tick that produced the
\* primed state evaluated it.
collidedAfter == collided(playerBox(playerRef', mode), obstaclesRef')

\* C1: gameState becomes "gameOver" only through a tick taken in "playing"
\* whose collision test is true, and every tick whose padded player hitbox
\* intersects a live obstacle sets gameState to "gameOver"; start, jump,
\* mode select and resize never enter "gameOver".
C1_GameOverOnlyByCollision ==
  [][ /\ (gameState # "gameOver" /\ gameState' = "gameOver")
         => (gameState = "playing" /\ Step /\ collidedAfter)
      /\ (Step /\ collidedAfter) => gameState' = "gameOver" ]_allVars

C1_Witness ==
  /\ gameState = "gameOver"
  /\ collided(playerBox(playerRef, mode), obstaclesRef)

\* C2: when a run in mode m ends by collision with accumulated score s, the
\* best score of m afterwards is max(previous best of m, floor(s)).
C2_BestScoreIsMax ==
  [][ (gameState = "playing" /\ gameState' = "gameOver")
      => bestScores'[modeId] = Max(bestScores[modeId], scoreRef \div SS) ]_allVars

\* A second run of a mode that ended below the best of the first.
C2_Witness ==
  /\ gameState = "gameOver"
  /\ runs = MaxRuns
  /\ score > 0
  /\ score < bestScores[modeId]

\* C3: the best-score map changes only in the playing -> gameOver
\* transition and only in the entry of the active mode; no entry ever
\* decreases.
C3_BestScoresFrame ==
  [][ /\ bestScores' # bestScores
         => /\ gameState = "playing" /\ gameState' = "gameOver"
            /\ \A id \in ModeIds \ {modeId} : bestScores'[id] = bestScores[id]
      /\ \A id \in ModeIds : bestScores'[id] >= bestScores[id] ]_allVars

\* Two runs in two modes, each with its own best score.
C3_Witness ==
  /\ gameState = "gameOver"
  /\ modeId # "pikachu"
  /\ bestScores["pikachu"] > 0
  /\ bestScores[modeId] > 0
  /\ bestScores[modeId] # bestScores["pikachu"]

\* C4: after every tick the player satisfies
\* 0 <= player.y <= groundLevel - PLAYER_SIZE.
C4_PlayerWithinArena ==
  [][ Step => /\ playerRef'.y >= 0
              /\ playerRef'.y <= (groundLevel - PLAYER_SIZE) * YS ]_allVars

\* A tick has clamped the player at the ceiling.
C4_Witness ==
  /\ gameState = "playing"
  /\ elapsedRef > 0
  /\ playerRef.y = 0
  /\ playerRef.velocityY = 0

\* C5: a jump command that arrives while the game is not playing starts
\* the game, and once its queued animation-frame callback has run the
\* player has jumpsUsed = 1 and velocityY = -mode.jumpVelocity.
C5_QueuedJumpJumps ==
  [][ QueuedJump => /\ playerRef'.jumpsUsed = 1
                    /\ playerRef'.velocityY = -(mode.jumpVelocity * (VS \div 10)) ]_allVars

\* C6: while the game is playing a select-mode command changes neither the
\* active mode nor the game state nor the running session; the active mode
\* changes only in "menu" or "gameOver".
C6_NoModeChangeWhilePlaying ==
  [][ gameState = "playing" /\ (\E id \in ModeIds : selectMode(id))
      => UNCHANGED << modeId, gameState, playerRef, obstaclesRef, scoreRef, score,
                      elapsedRef >> ]_allVars

\* The session of a scene that prepareScene has just set up.
freshSession ==
  /\ playerRef = startingPlayer(dimensions)
  /\ obstaclesRef = <<>>
  /\ nextObstacleId = 0
  /\ scoreRef = 0
  /\ score = 0
  /\ elapsedRef = 0
  /\ milestoneRef = 0
  /\ progression = 0
  /\ modeHint = abilityDescription(mode)
  /\ abilityBanner = abilityControlHints(mode.ability)
  /\ spawnTimerRef >= mode.spawnIntervalRange[1]
  /\ spawnTimerRef <= mode.spawnIntervalRange[2]

\* C7: whenever the active mode changes, the scene is fully reset for the
\* new mode and the game leaves "playing" in the same step, so that no tick
\* applies one mode's parameters to a session accumulated under another.
C7_ModeChangeResetsScene ==
  [][ modeId' # modeId => (freshSession' /\ gameState' = "menu") ]_allVars

\* The mode was changed after a run had started, and the scene is fresh.
C7_Witness ==
  /\ modeId # "pikachu"
  /\ runs = 1
  /\ gameState = "menu"
  /\ freshSession

\* C8: a start from "gameOver" and a start from "menu" leave the same
\* session: the starting player, no obstacles, id counter 0, score 0,
\* elapsed 0, milestone 0, progression 0, the default hint and banner,
\* "playing", and a spawn timer from the mode's range.
C8_StartIsFresh ==
  [][ (gameState # "playing" /\ gameState' = "playing") => freshSession' ]_allVars

\* A run started after an earlier run of the mode was lost.
C8_Witness ==
  /\ gameState = "playing"
  /\ runs = MaxRuns
  /\ bestScores[modeId] > 0
  /\ freshSession

\* C9: within a run the accumulated score never decreases from one tick to
\* the next, and the displayed score is the floor of the accumulated score.
C9_ScoreMonotone ==
  /\ [](score = scoreRef \div SS)
  /\ [][ Step => scoreRef' >= scoreRef ]_allVars

C9_Witness ==
  /\ gameState = "playing"
  /\ score >= milestoneThresholds[1]
  /\ scoreRef > score * SS

\* C17: a tick that finds a collision ends the run: the game state becomes
\* gameOver, the score offered to the best-score map is the floor of the
\* score accumulated before that tick, which is also the score on display,
\* and the tick adds no score and advances no milestone.
C17_CollisionTick ==
  [][ Step /\ collidedAfter
      => /\ gameState' = "gameOver"
         /\ scoreRef' = scoreRef
         /\ milestoneRef' = milestoneRef
         /\ score' = scoreRef \div SS
         /\ bestScores'[modeId] \in {bestScores[modeId], score'}
         /\ bestScores'[modeId] >= score' ]_allVars

\* A run lost past the second milestone whose score is the mode's best.
C17_Witness ==
  /\ gameState = "gameOver"
  /\ milestoneRef >= 2
  /\ score = scoreRef \div SS
  /\ bestScores[modeId] = score

\* C19: whenever the viewport width or height changes, in any game state,
\* the scene is reset for the new bounds (player.y = new groundLevel -
\* PLAYER_SIZE, player.x = min(120, 0.2 * new width), no obstacles) and the
\* game state becomes menu, so no tick finds a player or an obstacle
\* placed for an earlier viewport.
C19_ResizeResets ==
  /\ [][ dimensions'.width # dimensions.width \/ dimensions'.height # dimensions.height
         => /\ playerRef'.y = (dimensions'.height - GROUND_HEIGHT - PLAYER_SIZE) * YS
            /\ playerRef'.x = Min(120 * XS, (dimensions'.width * XS) \div 5)
            /\ playerRef'.velocityY = 0
            /\ obstaclesRef' = <<>>
            /\ gameState' = "menu" ]_allVars
  /\ [](/\ playerRef.x = Min(120 * XS, (dimensions.width * XS) \div 5)
        /\ playerRef.y <= (dimensions.height - GROUND_HEIGHT - PLAYER_SIZE) * YS
        /\ \A i \in DOMAIN obstaclesRef :
             /\ obstaclesRef[i].y + obstaclesRef[i].height
                  = (dimensions.height - GROUND_HEIGHT) * YS
             /\ obstaclesRef[i].x <= (dimensions.width + SPAWN_MARGIN) * XS
                                      + 140 * XS)

\* The menu of the wide viewport, reached by a resize after a run began.
C19_Witness ==
  /\ gameState = "menu"
  /\ dimensions = [width |-> 500, height |-> 300]
  /\ runs >= 1
  /\ playerRef.x = 100 * XS
  /\ playerRef.y = 188 * YS

(***************************************************************************)
(* Properties of the auto-upgrade variant, stated for AutoSpec.             *)
(***************************************************************************)
\* C10: no tick runs while the game is paused: from pausing until resume
\* the score, the player, both obstacle lists, the current speed and the
\* mode flags are unchanged, whatever jump, click or key events arrive.
C10_PausedIsFrozen ==
  [][ (autoGameState = "paused" \/ autoGameState' = "paused")
      => /\ ~AutoGameLoop
         /\ UNCHANGED << autoScore, player, spikes, flyingObstacles, currentSpeed,
                         isFlying, isGengar >> ]_allVars

\* Paused in the middle of a jump with a direction key held.
C10_Witness ==
  /\ autoGameState = "paused"
  /\ autoScore > 0
  /\ isJumping
  /\ "ArrowRight" \in keys

\* C11: the pause toggle (Escape, the mobile pause button) moves playing to
\* paused and paused to playing and does nothing in menu or gameOver, two
\* toggles in a row give back the state they started from, and no other
\* input than the toggle and the RESUME button enters or leaves paused.
C11_PauseToggle ==
  [][ /\ handleKeyDown("Escape") \/ pauseButton
         => /\ autoGameState = "playing" => autoGameState' = "paused"
            /\ autoGameState = "paused" => autoGameState' = "playing"
            /\ autoGameState \in {"menu", "gameOver"} => UNCHANGED autoGameState
      /\ \A gs \in {"menu", "playing", "paused", "gameOver"} :
           pauseToggle(pauseToggle(gs)) = gs
      /\ (autoGameState = "paused") # (autoGameState' = "paused")
         => handleKeyDown("Escape") \/ pauseButton \/ resumeButton ]_allVars

\* A later run of the session, paused on the ground after it scored: the
\* clock has counted the ticks of the lost run too.
C11_Witness ==
  /\ autoGameState = "paused"
  /\ autoScore > 0
  /\ now > (autoScore \div 3) * FrameGap
  /\ ~isJumping

(***************************************************************************)
(* Properties of one run of the mode-catalog variant, stated for RunSpec.   *)
(***************************************************************************)
\* The ids of the obstacles in a list.
idsOf(list) == {list[i].id : i \in DOMAIN list}

\* C12: within a run every spawned obstacle gets an id greater than every
\* id issued before it, so ids are unique and never reused after a removal,
\* and the live list is strictly increasing in id, cluster spawns included.
C12_ObstacleIds ==
  /\ [](/\ \A i, j \in DOMAIN obstaclesRef : i < j => obstaclesRef[i].id < obstaclesRef[j].id
        /\ \A i \in DOMAIN obstaclesRef : /\ obstaclesRef[i].id >= 0
                                          /\ obstaclesRef[i].id < nextObstacleId)
  /\ [][ RunStep => idsOf(obstaclesRef') \ idsOf(obstaclesRef)
                      = nextObstacleId .. (nextObstacleId' - 1) ]_allVars

\* A cluster spawned after the first obstacle of the run was removed.
C12_Witness ==
  /\ Len(obstaclesRef) >= 2
  /\ obstaclesRef[1].id > 0
  /\ obstaclesRef[2].id = obstaclesRef[1].id + 1
  /\ obstaclesRef[2].x - obstaclesRef[1].x < 200 * XS

\* C13: an obstacle leaves the live list only in a tick after whose
\* scrolling its right edge is at or left of the margin, x + width <= -40,
\* and in that tick it always leaves; every obstacle in the list after a
\* tick has x + width > -40; an obstacle that left never comes back.
C13_ObstacleRemoval ==
  [][ RunStep
      => LET ramp == rampMultiplier(elapsedRef', mode, prefersReducedMotion)
             distance == scrollDistance(mode, ramp, elapsedRef' - elapsedRef)
         IN  /\ \A i \in DOMAIN obstaclesRef :
                  LET o == obstaclesRef[i]
                  IN  (o.x - distance + o.width <= -(40 * XS))
                        <=> o.id \notin idsOf(obstaclesRef')
             /\ \A j \in DOMAIN obstaclesRef' :
                  /\ obstaclesRef'[j].x + obstaclesRef'[j].width > -(40 * XS)
                  /\ obstaclesRef'[j].id < nextObstacleId
                       => obstaclesRef'[j].id \in idsOf(obstaclesRef) ]_allVars

\* The first obstacle of the run has left the list while the run goes on.
C13_Witness ==
  /\ gameState = "playing"
  /\ nextObstacleId > 0
  /\ 0 \notin idsOf(obstaclesRef)

\* C14: within a run the ramp multiplier of successive ticks never
\* decreases and stays in [1, 1.75], and the progression stays in [0, 1],
\* whatever ticks and events occur, a change of the reduced-motion
\* preference during the run included.
C14_RampMonotone ==
  /\ [](/\ lastRamp = 0 \/ (lastRamp >= RS /\ lastRamp <= RAMP_CAP)
        /\ progression >= 0
        /\ progression <= RAMP_CAP - RS)
  /\ [][ RunStep /\ lastRamp > 0 => lastRamp' >= lastRamp ]_allVars

\* C15: within a run the milestone index never decreases, advances by at
\* most one per tick and never exceeds 3; an index k > 0 means the
\* accumulated score has reached threshold k - 1 of 24, 60, 110; a tick
\* that advances the index from k surfaces hint k, and no other tick
\* changes the hint, so each hint is surfaced once and in order.
C15_Milestones ==
  /\ [](/\ milestoneRef \in 0 .. 3
        /\ milestoneRef > 0 => scoreRef >= <<24, 60, 110>>[milestoneRef] * SS)
  /\ [][ /\ gameState = "playing" /\ gameState' = "playing"
            => milestoneRef' >= milestoneRef
         /\ RunStep
            => /\ milestoneRef' \in {milestoneRef, milestoneRef + 1}
               /\ milestoneRef' = milestoneRef => modeHint' = modeHint
               /\ milestoneRef' = milestoneRef + 1
                  => modeHint' = abilityMilestoneHints(mode.ability, milestoneRef)
         ]_allVars

\* The third hint is on display in a run that goes on.
C15_Witness ==
  /\ gameState = "playing"
  /\ milestoneRef = 3
  /\ modeHint = abilityMilestoneHints(mode.ability, 2)

\* C16: the play time between two consecutive spawns of a run lies within
\* the mode's spawnIntervalRange, extended only by the 220-340 ms recovery
\* delay when the earlier spawn was a cluster of two: no spawn comes
\* earlier than min or later than max after the one before it.
C16_SpawnInterval ==
  [][ RunStep /\ nextObstacleId' > nextObstacleId /\ lastSpawn # NoSpawn
      => LET between == elapsedRef' - lastSpawn.at
             cluster == lastSpawn.count > 1
         IN  /\ between >= mode.spawnIntervalRange[1] + (IF cluster THEN 220 ELSE 0)
             /\ between <= mode.spawnIntervalRange[2] + (IF cluster THEN 340 ELSE 0)
    ]_allVars

(***************************************************************************)
(* Properties of the collision tests, stated for RectsSpec.                 *)
(***************************************************************************)
\* C20: boxesIntersect(a, b) is true exactly when a.x < b.x + b.width,
\* a.x + a.width > b.x, a.y < b.y + b.height and a.y + a.height > b.y; so
\* it gives the same answer with its arguments swapped, and rectangles
\* that share only a boundary do not collide.  checkCollision is the same
\* test.
C20_BoxesIntersect ==
  verdict.applied
  => /\ verdict.boxesIntersect
          <=> (/\ rectA.x < rectB.x + rectB.width
               /\ rectA.x + rectA.width > rectB.x
               /\ rectA.y < rectB.y + rectB.height
               /\ rectA.y + rectA.height > rectB.y)
     /\ verdict.swapped = verdict.boxesIntersect
     /\ verdict.checkCollision = verdict.boxesIntersect
     /\ (\/ rectA.x + rectA.width = rectB.x
         \/ rectB.x + rectB.width = rectA.x
         \/ rectA.y + rectA.height = rectB.y
         \/ rectB.y + rectB.height = rectA.y) => ~verdict.boxesIntersect

\* Two rectangles of the same height side by side: they share the edge
\* a.x + a.width = b.x and have been tested.
C20_Witness ==
  /\ verdict.applied
  /\ rectA.width > 0 /\ rectA.height > 0
  /\ rectB.width > 0 /\ rectB.height = rectA.height
  /\ rectA.y = rectB.y
  /\ rectA.x + rectA.width = rectB.x
  /\ ~verdict.boxesIntersect

(***************************************************************************)
(* Properties of a long run of the auto-upgrade variant, for UpgradeSpec.   *)
(***************************************************************************)
\* C18: during the grace period after an automatic upgrade, 2000 ms after
\* entering flying mode and 5000 ms after entering Gengar mode, no tick
\* appends a spike or a flying obstacle and no tick changes the score.
C18_GracePeriod ==
  [][ /\ UpgradeGameLoop
      /\ \/ isFlying /\ flyingModeChangedAt # Null /\ now' - flyingModeChangedAt < 2000
         \/ isGengar /\ gengarModeChangedAt # Null /\ now' - gengarModeChangedAt < 5000
      => /\ autoScore' = autoScore
         /\ {spikes'[i].id : i \in DOMAIN spikes'} \subseteq {spikes[i].id : i \in DOMAIN spikes}
         /\ {flyingObstacles'[i].id : i \in DOMAIN flyingObstacles'}
              \subseteq {flyingObstacles[i].id : i \in DOMAIN flyingObstacles}
         /\ UNCHANGED << spikeIdCounter, flyingObstacleIdCounter >> ]_allVars

\* Ticks have run in the grace period of Gengar mode, after the one of
\* flying mode ran out and the score went on to the second threshold.
C18_Witness ==
  /\ autoGameState = "playing"
  /\ isGengar
  /\ now >= gengarModeChangedAt + 3 * FrameGap
  /\ autoScore >= 5000
  /\ autoScore < 5003

(***************************************************************************)
(* Properties of one jump in ticks of one frame, stated for ArcSpec.        *)
(***************************************************************************)
\* C21: with gravity 0.78, jumpVelocity 11, groundLevel 304 and player size
\* 56, from rest on the floor (y = 248) one jump command followed by ticks
\* of 16.67 ms brings the player back to the floor (y = 248, velocityY = 0,
\* jumpsUsed = 0) within 29 ticks, and y stays above 0 all the way.
C21_JumpArc ==
  /\ GAME_MODES[arc.modeId].gravity = 78
  /\ GAME_MODES[arc.modeId].jumpVelocity = 110
  /\ arc.groundLevel = 304
  /\ arc.jumped
  => /\ arc.y > 0
     /\ arc.ticks >= 29
        => /\ arc.landedAt \in 1 .. 29
           /\ arc.y = 248 * VS
           /\ arc.velocityY = 0
           /\ arc.jumpsUsed = 0

\* That jump back on the floor: the 28th tick landed it, the 27th having
\* left the player 3.16 px above the floor.
C21_Witness ==
  /\ arc.modeId = "pikachu"
  /\ arc.groundLevel = 304
  /\ arc.jumped
  /\ arc.landedAt = 28
  /\ arc.y = 248 * VS
  /\ arc.velocityY = 0
  /\ arc.jumpsUsed = 0


(***************************************************************************)
(* Properties of the integration step, stated for PathsSpec.               *)
(***************************************************************************)
\* C22: one tick of 32 ms and two ticks of 16 ms from the same state give
\* the same velocityY, and values of y that differ by at most
\* gravity * (16 / 16.67)^2, which is less than 1 px, whenever neither path
\* runs the floor clamp or the ceiling clamp.
C22_TickSplit ==
  paths.applied /\ ~paths.clamped
  => /\ paths.one.velocityY = paths.two.velocityY
     /\ Abs(paths.one.y - paths.two.y)
          <= GAME_MODES[paths.modeId].gravity * 100 * ShortTick * ShortTick
     /\ Abs(paths.one.y - paths.two.y) < YS

\* A gliding player on its way up, taken through both paths without a
\* clamp: the two values of y differ, velocityY agrees.
C22_Witness ==
  /\ paths.applied
  /\ ~paths.clamped
  /\ paths.modeId = "charizard"
  /\ paths.holding
  /\ paths.player.velocityY < 0
  /\ paths.one.velocityY = paths.two.velocityY
  /\ paths.one.y # paths.two.y


(***************************************************************************)
(* Properties of runs with close pairs of obstacles, stated for            *)
(* ClusterSpec.                                                            *)
(***************************************************************************)
\* C23: a run ends at most once.  gameState becomes "gameOver" only in a
\* tick of a run that is playing, however many obstacles that tick finds
\* intersecting the player; the best scores change only in that tick, to
\* what one call of endGame makes of them; in "gameOver" no tick runs and
\* the best scores stay, until the start of another run.
C23_SingleEnding ==
  [][ /\ gameState # "gameOver" /\ gameState' = "gameOver"
         => /\ gameState = "playing"
            /\ ClusterStep
            /\ bestScores' = bestScoresUpdate(bestScores, modeId, scoreRef \div SS)
      /\ bestScores' # bestScores
         => gameState = "playing" /\ gameState' = "gameOver"
      /\ gameState = "gameOver"
         => /\ ~ClusterStep
            /\ bestScores' = bestScores
            /\ elapsedRef' # elapsedRef \/ gameState' # "gameOver" => runs' = runs + 1
    ]_allVars

\* A run ended by a tick in which both obstacles of a pair intersect the
\* player, with its score recorded as the best of the mode.
C23_Witness ==
  /\ gameState = "gameOver"
  /\ Cardinality(hitting) >= 2
  /\ bestScores[modeId] = scoreRef \div SS
  /\ bestScores[modeId] > 0


(***************************************************************************)
(* Properties of the jump counter, stated for Spec.                        *)
(***************************************************************************)
maxJumpsOf(m) == IF m.ability = "doubleJump" THEN 2 ELSE 1
floorYNow == (groundLevel - PLAYER_SIZE) * YS

\* C24: jumpsUsed stays within 0 .. maxJumps, 2 for the doubleJump ability
\* and 1 otherwise.  It grows by one jump at a time, in a playing game; a
\* jump command that finds it at maxJumps leaves the player as it is; it
\* returns to 0 only by the floor clamp of a tick or by a scene reset, and a
\* tick that ends at the ceiling leaves it alone.
C24_JumpBudget ==
  /\ [](playerRef.jumpsUsed \in 0 .. maxJumpsOf(mode))
  /\ [][ /\ playerRef'.jumpsUsed > playerRef.jumpsUsed
            => /\ playerRef'.jumpsUsed = playerRef.jumpsUsed + 1
               /\ gameState = "playing"
               /\ ~Step
         /\ /\ gameState = "playing"
            /\ playerRef.jumpsUsed = maxJumpsOf(mode)
            /\ PointerDown \/ KeyDown \/ QueuedJump
            => playerRef' = playerRef
         /\ playerRef'.jumpsUsed < playerRef.jumpsUsed
            => /\ playerRef'.jumpsUsed = 0
               /\ \/ /\ Step
                     /\ playerRef'.y = floorYNow
                     /\ playerRef'.velocityY = 0
                  \/ /\ ~Step
                     /\ playerRef' = startingPlayer(dimensions')
         /\ Step /\ playerRef'.y = 0
            => playerRef'.jumpsUsed = playerRef.jumpsUsed
       ]_allVars

\* The doubled jump spent in the air, with the jump key still down.
C24_Witness ==
  /\ gameState = "playing"
  /\ mode.ability = "doubleJump"
  /\ playerRef.jumpsUsed = 2
  /\ playerRef.y < floorYNow - 2 * YS
  /\ "Space" \in keysRef


(***************************************************************************)
(* Properties of jumps at any time of a run, stated for AirSpec.           *)
(***************************************************************************)
\* C25: 0 <= player.y <= groundLevel - PLAYER_SIZE holds in every state,
\* those between a jump command and the next tick included: a jump that is
\* accepted moves the player up by 1 px outside any tick and never to a
\* negative y, the second jump of the doubleJump ability included, and no
\* jump is accepted from a player that rests at the ceiling.
C25_JumpStaysInside ==
  /\ [](playerRef.y >= 0 /\ playerRef.y <= floorYNow)
  /\ [][ AirKeyDown /\ playerRef'.jumpsUsed > playerRef.jumpsUsed
         => /\ playerRef'.y = playerRef.y - YS
            /\ playerRef'.y >= 0
            /\ playerRef.y > 0
       ]_allVars

\* The second jump of the doubleJump ability taken at the top of the first,
\* before the next tick.
C25_Witness ==
  /\ gameState = "playing"
  /\ mode.ability = "doubleJump"
  /\ playerRef.jumpsUsed = 2
  /\ playerRef.velocityY = -(mode.jumpVelocity * (VS \div 10))
  /\ playerRef.y < floorYNow - 60 * YS
  /\ playerRef.y >= 0


(***************************************************************************)
(* Properties of the idle game, stated for Spec.                           *)
(***************************************************************************)
\* What a run leaves behind in the refs.
sceneRefs == << playerRef, obstaclesRef, scoreRef, elapsedRef, spawnTimerRef, milestoneRef >>

\* C26: while gameState is "menu" or "gameOver" no tick runs, and the
\* player, the obstacles, the accumulated score, the elapsed time, the spawn
\* timer and the milestone stay as they were left until a start, a mode
\* change or a resize; a jump command given in these states changes the
\* player only by starting a run, and the jump it queued changes nothing.
C26_IdleFrozen ==
  [][ /\ gameState \in {"menu", "gameOver"}
         => /\ ~Step
            /\ sceneRefs' # sceneRefs
               => \/ gameState' = "playing" /\ runs' = runs + 1
                  \/ modeId' # modeId
                  \/ dimensions' # dimensions
            /\ PointerDown \/ (\E code \in JumpKeys : onKeyDown(code))
               => /\ gameState' = "playing"
                  /\ playerRef' = startingPlayer(dimensions)
      /\ QueuedJump /\ Head(frameQueue).gameState \in {"menu", "gameOver"}
         => playerRef' = playerRef
    ]_allVars

\* A lost run restarted by a jump command: the player stands on the floor
\* and the jump of the command is waiting for its animation frame.
C26_Witness ==
  /\ gameState = "playing"
  /\ runs = 2
  /\ bestScores[modeId] > 0
  /\ frameQueue # <<>>
  /\ Head(frameQueue).gameState = "gameOver"
  /\ playerRef = startingPlayer(dimensions)
  /\ obstaclesRef = <<>>


(***************************************************************************)
(* Properties of the tick's delta, stated for RunSpec.                     *)
(***************************************************************************)
\* C27: with a clock that does not run backwards every tick applies a
\* delta with 0 <= delta <= 32 ms, and delta <= 20 ms under reduced motion,
\* the first tick of a run and the first tick of a re-created loop
\* included.  The elapsed play time is the sum of the deltas applied: it is
\* 0 when the run starts, only a tick changes it, and a tick adds to it the
\* delta it takes from the spawn timer and scores with.
C27_TickDelta ==
  [][ /\ RunStep
         => LET delta == elapsedRef' - elapsedRef
            IN  /\ delta >= 0
                /\ delta <= 32
                /\ prefersReducedMotion => delta <= 20
                /\ nextObstacleId' = nextObstacleId
                   => spawnTimerRef' = spawnTimerRef - delta
                /\ gameState' = "playing"
                   => scoreRef' = scoreRef + scoreGain(mode, lastRamp', delta)
      /\ ~RunStep
         => \/ elapsedRef' = elapsedRef
            \/ elapsedRef' = 0 /\ (RunStart \/ RunSelectMode \/ RunResize)
    ]_allVars

\* A tick of 32 ms, the media query turning to reduced motion, which
\* re-creates the loop, and a tick of 20 ms.
C27_Witness ==
  /\ gameState = "playing"
  /\ prefersReducedMotion
  /\ elapsedRef = 32 + 20


(***************************************************************************)
(* Properties of the hitbox, stated for Spec.                              *)
(***************************************************************************)
\* The padding of the claim: 6 px for the phase ability, none otherwise.
paddingOf(m) == IF m.ability = "phase" THEN 6 ELSE 0

\* player shrunk by pad px on each of its four sides.
shrunk(body, pad) ==
  [ x |-> body.x + pad * XS,
    y |-> body.y + pad * YS,
    width |-> (body.x + body.width - pad * XS) - (body.x + pad * XS),
    height |-> (body.y + body.height - pad * YS) - (body.y + pad * YS) ]

\* The obstacles that overlap the player rectangle but not the rectangle
\* shrunk by the mode's padding.
grazing(body, obstacles) ==
  {i \in DOMAIN obstacles :
     /\ boxesIntersect([x |-> body.x, y |-> body.y, width |-> body.width,
                        height |-> body.height], obstacles[i])
     /\ ~boxesIntersect(shrunk(body, paddingOf(mode)), obstacles[i])}

\* C28: the collision test uses the player rectangle shrunk by
\* hitboxPadding, 6 px for the phase mode and 0 otherwise, on all four
\* sides; the tested box lies inside the player rectangle and has positive
\* width and height; a tick ends the run exactly when an obstacle
\* intersects that box, so an obstacle that overlaps the player within the
\* padding margin only does not end it.
C28_PaddedHitbox ==
  /\ [](LET box == playerBox(playerRef, mode)
        IN  /\ box = shrunk(playerRef, paddingOf(mode))
            /\ box.x >= playerRef.x
            /\ box.y >= playerRef.y
            /\ box.x + box.width <= playerRef.x + playerRef.width
            /\ box.y + box.height <= playerRef.y + playerRef.height
            /\ box.width > 0
            /\ box.height > 0)
  /\ [][ Step
         => (gameState' = "gameOver"
             <=> \E i \in DOMAIN obstaclesRef' :
                   boxesIntersect(shrunk(playerRef', paddingOf(mode)), obstaclesRef'[i]))
       ]_allVars

\* The phase mode still playing with an obstacle inside the player
\* rectangle, in the padding margin only.
C28_Witness ==
  /\ gameState = "playing"
  /\ mode.ability = "phase"
  /\ elapsedRef > 0
  /\ grazing(playerRef, obstaclesRef) # {}


\* The obstacle of the list that carries the id.
obstacleOf(list, id) == list[CHOOSE i \in DOMAIN list : list[i].id = id]

\* C29: every obstacle is created with its left edge at or right of the
\* viewport width + 48, the first of a spawn exactly there, with a height
\* within the obstacleHeight range of the mode and its bottom on the ground,
\* y + height = groundLevel.  The tick that creates it does not scroll it
\* and cannot find it intersecting the player.  Afterwards its y, width and
\* height never change and its x never increases: a tick moves it left or
\* leaves it, and nothing else touches the list except a scene reset, which
\* empties it.
C29_ObstacleLife ==
  [][ /\ ClusterStep
         => \A j \in DOMAIN obstaclesRef' :
              LET o == obstaclesRef'[j]
              IN  IF o.id >= nextObstacleId
                  THEN /\ o.x >= (dimensions.width + 48) * XS
                       /\ o.id = nextObstacleId => o.x = (dimensions.width + 48) * XS
                       /\ o.height >= mode.obstacleHeight[1] * YS
                       /\ o.height <= mode.obstacleHeight[2] * YS
                       /\ o.y + o.height = groundLevel * YS
                       /\ o.x > playerRef'.x + playerRef'.width
                       /\ ~boxesIntersect(playerBox(playerRef', mode), o)
                  ELSE /\ o.id \in idsOf(obstaclesRef)
                       /\ o.y = obstacleOf(obstaclesRef, o.id).y
                       /\ o.width = obstacleOf(obstaclesRef, o.id).width
                       /\ o.height = obstacleOf(obstaclesRef, o.id).height
                       /\ o.x <= obstacleOf(obstaclesRef, o.id).x
      /\ ~ClusterStep
         => obstaclesRef' = obstaclesRef \/ obstaclesRef' = <<>>
    ]_allVars

\* The tick that spawned a pair of the highest obstacles while an older
\* obstacle is on its way: the first of the pair stands where it was
\* created, the older one has moved left.
C29_Witness ==
  /\ gameState = "playing"
  /\ Len(obstaclesRef) >= 3
  /\ \E j \in DOMAIN obstaclesRef :
       /\ j > 1
       /\ obstaclesRef[j].x = (dimensions.width + 48) * XS
       /\ obstaclesRef[j].id = nextObstacleId - 2
       /\ obstaclesRef[j].height >= (mode.obstacleHeight[2] - 1) * YS
       /\ obstaclesRef[1].x < obstaclesRef[j].x - 100 * XS


\* C30: the two obstacles of a cluster never overlap.  The second is
\* created at least 54 px, and less than 84 px, right of the right edge of
\* the first, and every tick that keeps both keeps the distance between
\* them, so the gap stays as created while both are live.
C30_ClusterGap ==
  [][ ClusterStep
      => /\ nextObstacleId' = nextObstacleId + 2
            => LET first == obstacleOf(obstaclesRef', nextObstacleId)
                   second == obstacleOf(obstaclesRef', nextObstacleId + 1)
                   gap == second.x - (first.x + first.width)
               IN  /\ gap >= 54 * XS
                   /\ gap < 84 * XS
                   /\ ~boxesIntersect(first, second)
         /\ \A i, j \in DOMAIN obstaclesRef :
              LET a == obstaclesRef[i]
                  b == obstaclesRef[j]
              IN  a.id \in idsOf(obstaclesRef') /\ b.id \in idsOf(obstaclesRef')
                  => obstacleOf(obstaclesRef', b.id).x - obstacleOf(obstaclesRef', a.id).x
                       = b.x - a.x
    ]_allVars

\* Both obstacles of a pair on their way, the first already at the player,
\* still 54 px apart.
C30_Witness ==
  /\ gameState = "playing"
  /\ \E i, j \in DOMAIN obstaclesRef :
       /\ obstaclesRef[j].id = obstaclesRef[i].id + 1
       /\ obstaclesRef[j].x - (obstaclesRef[i].x + obstaclesRef[i].width) = 54 * XS
       /\ obstaclesRef[i].x < playerRef.x + playerRef.width


(***************************************************************************)
(* Properties of the obstacle list of a run that goes on, stated for       *)
(* BeltSpec.                                                               *)
(***************************************************************************)
\* The most obstacles the list holds at once.
MaxLive == 6

\* C31: while ticks with a positive delta keep occurring, every obstacle of
\* the list is eventually removed from it: from any time on, a time comes
\* when it is not in the list.  The next spawn eventually occurs, up to the
\* last obstacle followed, and the list never holds more than MaxLive
\* obstacles.
C31_ObstaclesLeave ==
  /\ [](Len(belt.obstacles) <= MaxLive)
  /\ \A id \in 0 .. MaxBeltIds : []<>(id \notin idsOf(belt.obstacles))
  /\ <>(belt.nextId >= MaxBeltIds)

\* The first obstacle has left the list while later ones are on their way
\* and a spawn is still to come.
C31_Witness ==
  /\ belt.nextId > 2
  /\ belt.nextId < MaxBeltIds
  /\ belt.obstacles # <<>>
  /\ 0 \notin idsOf(belt.obstacles)
  /\ Len(belt.obstacles) >= 3


(***************************************************************************)
(* Properties of the return to the menu, stated for Spec.                  *)
(***************************************************************************)
\* C32: gameState becomes "menu" from "playing" or "gameOver" only in a
\* step that changes the active mode or the viewport dimensions, and that
\* step leaves the scene as prepareScene makes it for the new mode and
\* dimensions; a start, a restart, a jump command and a tick never enter
\* "menu".
C32_MenuByReset ==
  [][ gameState # "menu" /\ gameState' = "menu"
         => /\ modeId' # modeId \/ dimensions' # dimensions
            /\ playerRef' = startingPlayer(dimensions')
            /\ obstaclesRef' = <<>>
            /\ nextObstacleId' = 0
            /\ scoreRef' = 0
            /\ score' = 0
            /\ milestoneRef' = 0
            /\ elapsedRef' = 0
            /\ progression' = 0
            /\ spawnTimerRef' >= GAME_MODES[modeId'].spawnIntervalRange[1]
            /\ spawnTimerRef' <= GAME_MODES[modeId'].spawnIntervalRange[2]
            /\ modeHint' = abilityDescription(GAME_MODES[modeId'])
            /\ ~(Step \/ StartButton \/ PointerDown \/ KeyDown \/ QueuedJump \/ KeyUp)
    ]_allVars

\* The menu of another mode, entered after a run was lost: the lost run's
\* best score stays with its mode, the scene is prepared for the new one.
C32_Witness ==
  /\ gameState = "menu"
  /\ runs >= 1
  /\ \E id \in ModeIds : id # modeId /\ bestScores[id] > 0
  /\ bestScores[modeId] = 0
  /\ playerRef = startingPlayer(dimensions)
  /\ obstaclesRef = <<>>
  /\ scoreRef = 0


\* C33: a run left without a collision, by a mode change or a resize while
\* playing, leaves the best-score map as it was and its score is discarded:
\* the step into "menu" changes no best score and zeroes scoreRef and the
\* displayed score, the menu always holds score zero, every run starts from
\* zero, and a best score is only ever set to the score that the colliding
\* run itself has accumulated.
C33_AbandonedRunDiscarded ==
  /\ [](gameState = "menu" => scoreRef = 0 /\ score = 0)
  /\ [][ /\ gameState = "playing" /\ gameState' = "menu"
            => /\ bestScores' = bestScores
               /\ scoreRef' = 0
               /\ score' = 0
         /\ gameState # "playing" /\ gameState' = "playing" => scoreRef' = 0
         /\ bestScores' # bestScores
            => /\ Step
               /\ elapsedRef > 0
               /\ bestScores'[modeId] = scoreRef \div SS
       ]_allVars

\* The menu after runs of which none was lost: every run so far was left
\* by a mode change or resize, and no mode has a best score.
C33_Witness ==
  /\ gameState = "menu"
  /\ runs >= 2
  /\ \A id \in ModeIds : bestScores[id] = 0
  /\ scoreRef = 0


(***************************************************************************)
(* Properties of a pair of runs, stated for TwinSpec.                      *)
(***************************************************************************)
\* C34: two runs of the same mode and reduced-motion setting that took the
\* same tick deltas have the same accumulated score, elapsed time, ramp
\* multiplier and milestone index for as long as neither has collided,
\* whatever their jump commands, held keys and random draws.
C34_ScoreIgnoresInput ==
  ~twin.one.over /\ ~twin.two.over
    => /\ twin.one.score = twin.two.score
       /\ twin.one.elapsed = twin.two.elapsed
       /\ twin.one.ramp = twin.two.ramp
       /\ twin.one.milestone = twin.two.milestone

\* Two runs past the second milestone: the first in the air above an
\* obstacle after a pointer jump, the second on the ground with other
\* obstacles ahead, both with the same score.
C34_Witness ==
  /\ ~twin.one.over /\ ~twin.two.over
  /\ twin.one.milestone >= 2
  /\ twin.one.obstacles # twin.two.obstacles
  /\ twin.one.player.jumpsUsed > 0
  /\ \E i \in DOMAIN twin.one.obstacles :
       twin.one.obstacles[i].x < twin.one.player.x + twin.one.player.width
  /\ twin.two.player.jumpsUsed = 0
  /\ twin.one.score = twin.two.score
  /\ twin.one.score > 0


(***************************************************************************)
(* Properties of the motion models of the auto-upgrade variant, stated for *)
(* ModesSpec.                                                              *)
(***************************************************************************)
\* The motion model in force: Gengar, flying or normal.
motionModel == IF isGengar THEN "gengar" ELSE IF isFlying THEN "flying" ELSE "normal"

\* C35: isFlying and isGengar are never both true; within a run the motion
\* model only moves forward, from normal to flying at score >= 1000 and
\* from flying to Gengar at score >= 5000, and Gengar is left only by a
\* reset; a reset always gives the normal model with gravityUp false and
\* both grace timestamps cleared.
C35_ModesForward ==
  /\ [](~(isFlying /\ isGengar))
  /\ [][ /\ motionModel' # motionModel
            => \/ /\ motionModel = "normal" /\ motionModel' = "flying"
                  /\ UpgradeGameLoop
                  /\ autoScore' >= FLYING_MODE_THRESHOLD
               \/ /\ motionModel = "flying" /\ motionModel' = "gengar"
                  /\ UpgradeGameLoop
                  /\ autoScore' >= GENGAR_MODE_THRESHOLD
               \/ /\ motionModel' = "normal"
                  /\ UpgradeStart \/ ModesRestart
         /\ UpgradeStart \/ ModesRestart
            => /\ motionModel' = "normal"
               /\ ~isFlying' /\ ~isGengar' /\ ~gravityUp'
               /\ flyingModeChangedAt' = Null
               /\ gengarModeChangedAt' = Null
       ]_allVars

\* The second run, normal again after the first was lost in Gengar mode
\* with gravity flipped: the time is past the Gengar upgrade of the first.
C35_Witness ==
  /\ autoGameState = "playing"
  /\ motionModel = "normal"
  /\ ~gravityUp
  /\ gengarModeChangedAt = Null
  /\ autoScore > 0
  /\ autoScore < FLYING_MODE_THRESHOLD
  /\ now > 28000


(***************************************************************************)
(* Properties of the auto-upgrade variant, stated for AutoSpec.            *)
(***************************************************************************)
\* C36: after every tick of the auto-upgrade variant the player satisfies
\* 0 <= player.y <= groundY - player.height, whatever jump commands,
\* direction inputs and ticks came before.
C36_AutoPlayerInside ==
  [][ AutoGameLoop => /\ player'.y >= 0
                      /\ player'.y <= groundY' * AYS - player'.height ]_allVars


(***************************************************************************)
(* Properties of the grace period under pauses, stated for GraceSpec.      *)
(***************************************************************************)
\* C37: the grace period after a mode upgrade lasts its full length in
\* play: a tick that comes less than 2000 ms of un-paused play after the
\* upgrade to flying mode, or less than 5000 ms after the upgrade to Gengar
\* mode, changes no score and appends no spike or flying obstacle, however
\* long the game was paused in between.
C37_GraceInPlayTime ==
  [][ /\ GraceGameLoop
      /\ \/ isFlying /\ flyingModeChangedAt # Null
            /\ grace'.played - grace.since < FLYING_GRACE
         \/ isGengar /\ gengarModeChangedAt # Null
            /\ grace'.played - grace.since < GENGAR_GRACE
      => /\ autoScore' = autoScore
         /\ UNCHANGED << spikeIdCounter, flyingObstacleIdCounter >> ]_allVars


(***************************************************************************)
(* Properties of the high-score store, stated for BoardSpec.               *)
(***************************************************************************)
\* How often score v is among the three highest of the scores submitted.
inTopThree(v) ==
  LET same == Cardinality({i \in DOMAIN board.submitted : board.submitted[i] = v})
      above == Cardinality({i \in DOMAIN board.submitted : board.submitted[i] > v})
  IN  Min(same, Max(0, 3 - above))

\* C38: after any sequence of addHighScore calls the local fallback list
\* holds at most 3 entries, in descending order of score, and they are the
\* highest scores of all that were submitted while the remote insert
\* failed; such a call returns false, and a call whose remote insert
\* succeeds returns true and leaves the local list as it was.
C38_LocalFallback ==
  /\ [](LET list == localScores(board.item)
        IN  /\ Len(list) <= 3
            /\ \A i, j \in DOMAIN list : i < j => list[i].score >= list[j].score
            /\ \A v \in BoardScores :
                 Cardinality({i \in DOMAIN list : list[i].score = v}) = inTopThree(v))
  /\ [][ AddHighScore
         => /\ board'.failed => ~board'.returned
            /\ ~board'.failed => /\ board'.returned
                                 /\ board'.item = board.item ]_allVars

\* Four scores went through the fallback, the lower ones first: the list
\* holds the two higher ones and one of the lower, under names cut to ten
\* capitals, and getTopScores has shown it.
C38_Witness ==
  /\ board.submitted = << 10, 10, 20, 20 >>
  /\ Len(localScores(board.item)) = 3
  /\ board.shown = localScores(board.item)
  /\ board.shown[1].score = 20
  /\ board.shown[2].score = 20
  /\ board.shown[3].score = 10
  /\ board.shown[1].name # board.shown[3].name
  /\ Len(board.shown[1].name) = 10
  /\ ~board.returned

====
